---- MODULE Spec2Model ----
(***************************************************************************)
(* A model of the extract_agent repository: the provenance check           *)
(* (check_valid_value), the HTML table reconstruction                      *)
(* (parse_html_table_to_markdown / parse_html_table_to_csv) and the        *)
(* two-stage extraction run (process_data with the fetch functions).       *)
(*                                                                         *)
(* Python strings are sequences of one-character strings, so that strip,   *)
(* split, join and substring search are computed, not assumed.             *)
(***************************************************************************)
EXTENDS Integers, Sequences, FiniteSets, TLC

VARIABLES
    \* check_valid_value
    vpc, html_content, value, longest_match, rematch,
    \* parse_html_table_to_markdown
    tpc, raw_html, writer, formatted, markdown_table, kept_rows,
    empty_col_indices, filtered_rows, markdown_output,
    \* process_data
    rpc, error, data, original_indices_and_content, text_tasks,
    all_extracted_results, row_tasks, metrics_by_table_index, cell_tasks,
    table_data, auditing_tasks, extracted_data_for_merge, final_results,
    classification_tasks, auditing_file, classification_file, calls,
    \* AsyncOpenAIAPIFetcher
    fetches,
    \* is_numeric_value
    npc, numeric_text, numeric,
    \* segment matcher
    mpc, candidates, target, scores, best_match,
    \* the indentation of one cell
    ipc, indent_cell, indent_idx, cell_indent_px, indent_text,
    \* _fetch_extracted_output of one text: its lines, the result of each line, final_result
    xpc, sentence_lines, line_results, descriptors,
    \* extract_table_with_preceding_text: the elements of the document, the value returned
    epc, document, chunk_result,
    \* the Stage-B call of one text descriptor: the descriptor, the call, its response, the merged record
    bpc, stage_a_record, stage_b, stage_b_response, merged_record,
    \* async_limit: the invocations of the wrapper, the semaphore and its waiters
    lpc, max_concurrent, semaphore_value, semaphore_waiters

verifierVars == <<vpc, html_content, value, longest_match, rematch>>
tableVars == <<tpc, raw_html, writer, formatted, markdown_table, kept_rows,
               empty_col_indices, filtered_rows, markdown_output>>
runVars == <<rpc, error, data, original_indices_and_content, text_tasks,
             all_extracted_results, row_tasks, metrics_by_table_index,
             cell_tasks, table_data, auditing_tasks, extracted_data_for_merge,
             final_results, classification_tasks, auditing_file,
             classification_file, calls>>
fetcherVars == <<fetches>>
numericVars == <<npc, numeric_text, numeric>>
matcherVars == <<mpc, candidates, target, scores, best_match>>
indentVars == <<ipc, indent_cell, indent_idx, cell_indent_px, indent_text>>
extractVars == <<xpc, sentence_lines, line_results, descriptors>>
chunkVars == <<epc, document, chunk_result>>
stageBVars == <<bpc, stage_a_record, stage_b, stage_b_response, merged_record>>
limitVars == <<lpc, max_concurrent, semaphore_value, semaphore_waiters>>
vars == <<verifierVars, tableVars, runVars, fetcherVars, numericVars, matcherVars, indentVars, extractVars, chunkVars, stageBVars, limitVars>>

(***************************************************************************)
(* Bounds of the model.                                                    *)
(***************************************************************************)
MaxSourceLen == 3
MaxValueLen == 3

(***************************************************************************)
(* Python sequence and string primitives.                                  *)
(***************************************************************************)
SeqsUpTo(S, n) == UNION {[1..k -> S] : k \in 0..n}

Max2(a, b) == IF a >= b THEN a ELSE b

\* sub in s
Contains(s, sub) ==
    \E i \in 0..(Len(s) - Len(sub)) : SubSeq(s, i + 1, i + Len(sub)) = sub

(***************************************************************************)
(* check_valid_value (src/src/utils.py): walk the prefixes of value, from  *)
(* length 1 up, until the first one that is not in html_content.           *)
(***************************************************************************)
RECURSIVE check_valid_value_loop(_, _, _, _, _)
check_valid_value_loop(content, val, i, last, longest) ==
    IF i > last
    THEN longest
    ELSE LET substring == SubSeq(val, 1, i)
         IN  IF Contains(content, substring)
             THEN check_valid_value_loop(content, val, i + 1, last, substring)
             ELSE longest

\* the loop stops one prefix early: range(1, len(value))
check_valid_value_short(content, val) ==
    IF val = <<>> \/ content = <<>>
    THEN <<>>
    ELSE check_valid_value_loop(content, val, 1, Len(val) - 1, <<>>)

check_valid_value(content, val) ==
    IF val = <<>> \/ content = <<>>
    THEN <<>>
    ELSE check_valid_value_loop(content, val, 1, Len(val), <<>>)

VerifierChars == {"a", "b"}

VerifierInit ==
    /\ vpc = "input"
    /\ html_content \in SeqsUpTo(VerifierChars, MaxSourceLen)
    /\ value \in SeqsUpTo(VerifierChars, MaxValueLen)
    /\ longest_match = <<>>
    /\ rematch = <<>>

\* longest_match = check_valid_value(html_content, value)
Verify ==
    /\ vpc = "input"
    /\ longest_match' = check_valid_value(html_content, value)
    /\ vpc' = "verified"
    /\ UNCHANGED <<html_content, value, rematch>>

\* the verified prefix is verified again against the same source
Reverify ==
    /\ vpc = "verified"
    /\ rematch' = check_valid_value(html_content, longest_match)
    /\ vpc' = "reverified"
    /\ UNCHANGED <<html_content, value, longest_match>>

(***************************************************************************)
(* Characters of the table model.  U+00A0 is white space for str.strip;    *)
(* U+FEFF and U+FFFD are not.  The six-character literal &nbsp; that the   *)
(* code writes as its indent marker is kept as one unit.                   *)
(***************************************************************************)
SP == " "
NBSP == "U+00A0"
BOM == "U+FEFF"
REPL == "U+FFFD"
NbspEntity == "&nbsp;"
NumEntity == "&#160;"
PIPE == "|"
DASH == "-"
NL == "\n"

IsSpace(c) == c \in {SP, NBSP, NL}

RECURSIVE lstrip(_)
lstrip(s) == IF s # <<>> /\ IsSpace(Head(s)) THEN lstrip(Tail(s)) ELSE s

RECURSIVE rstrip(_)
rstrip(s) ==
    IF s # <<>> /\ IsSpace(s[Len(s)]) THEN rstrip(SubSeq(s, 1, Len(s) - 1)) ELSE s

strip(s) == rstrip(lstrip(s))

count(s, c) == Cardinality({i \in 1..Len(s) : s[i] = c})

\* [x] * n
Repeat(x, n) == [i \in 1..n |-> x]

RECURSIVE Flatten(_)
Flatten(ss) == IF ss = <<>> THEN <<>> ELSE Head(ss) \o Flatten(Tail(ss))

\* sep.join(parts)
RECURSIVE join(_, _)
join(sep, parts) ==
    IF parts = <<>> THEN <<>>
    ELSE IF Len(parts) = 1 THEN parts[1]
    ELSE parts[1] \o sep \o join(sep, Tail(parts))

\* s.split(c) for a one-character separator
RECURSIVE split(_, _)
split(s, c) ==
    IF \A i \in 1..Len(s) : s[i] # c
    THEN <<s>>
    ELSE LET i == CHOOSE k \in 1..Len(s) :
                      s[k] = c /\ \A j \in 1..(k - 1) : s[j] # c
         IN  <<SubSeq(s, 1, i - 1)>> \o split(SubSeq(s, i + 1, Len(s)), c)

\* lst[1:-1]
Inner(lst) == SubSeq(lst, 2, Len(lst) - 1)

(***************************************************************************)
(* A style attribute, as the regular expressions of the code read it: each *)
(* declaration is the sequence of its (number, unit) values, empty when    *)
(* the style does not hold it.  padding-left, text-indent and margin-left  *)
(* match only with a unit among pt, px, em, rem.                           *)
(***************************************************************************)
Units == {"pt", "px", "em", "rem"}

NoStyle == [nonempty |-> FALSE, padding_left |-> <<>>, padding |-> <<>>,
            text_indent |-> <<>>, margin_left |-> <<>>]

\* int(value) if value > 0 else 0, after the unit conversion
ToPx(v, unit) ==
    IF v <= 0 THEN 0
    ELSE IF unit = "pt" THEN (v * 133) \div 100
    ELSE IF unit \in {"em", "rem"} THEN v * 16
    ELSE v

Matches(decl) == Len(decl) = 1 /\ decl[1].unit \in Units

\* the loop over padding_patterns: [matched, px]
PaddingPx(style) ==
    IF Matches(style.padding_left)
    THEN [matched |-> TRUE,
          px |-> ToPx(style.padding_left[1].v, style.padding_left[1].unit)]
    ELSE IF Len(style.padding) >= 2
    THEN \* group(1) is the first number; group(2) is the second number, not a unit
         [matched |-> TRUE, px |-> ToPx(style.padding[1].v, "number")]
    ELSE [matched |-> FALSE, px |-> 0]

IndentPx(style) ==
    LET pad == PaddingPx(style).px
        ti  == IF pad = 0 /\ Matches(style.text_indent)
               THEN ToPx(style.text_indent[1].v, style.text_indent[1].unit)
               ELSE pad
    IN  IF ti = 0 /\ Matches(style.margin_left)
        THEN ToPx(style.margin_left[1].v, style.margin_left[1].unit)
        ELSE ti

\* the cell's style attribute, else the style of its first <p> child
StyleOf(cell) == IF cell.style.nonempty THEN cell.style ELSE cell.p_style

(***************************************************************************)
(* One cell of a row: the text that goes into the grid.                    *)
(***************************************************************************)
\* the variant that takes the sum of the three counts and marks every cell
ResolveTextSum(idx, cell) ==
    LET text == cell.text
        style == StyleOf(cell)
        indent_px == IF style.nonempty THEN IndentPx(style) ELSE 0
        leading_spaces == Len(text) - Len(lstrip(text))
        nbsp_count == count(text, NbspEntity) + count(text, NumEntity)
                          + count(text, NBSP)
        space_from_px == IF indent_px > 0 THEN indent_px \div 8 ELSE 0
        effective_indent == leading_spaces + space_from_px + nbsp_count
    IN  rstrip(IF effective_indent > 0
               THEN Repeat(NbspEntity, effective_indent) \o lstrip(text)
               ELSE lstrip(text))

ResolveText(idx, cell) ==
    LET text == cell.text
        style == StyleOf(cell)
        indent_px == IF style.nonempty THEN IndentPx(style) ELSE 0
        leading_spaces == Len(text) - Len(lstrip(text))
        nbsp_count == count(text, NbspEntity) + count(text, NumEntity)
                          + count(text, NBSP)
        space_from_px == IF indent_px > 0 THEN indent_px \div 8 ELSE 0
        effective_indent == Max2(Max2(leading_spaces, space_from_px), nbsp_count)
    IN  rstrip(IF effective_indent > 0 /\ idx = 0
               THEN Repeat(NbspEntity, effective_indent) \o lstrip(text)
               ELSE lstrip(text))

\* row_data.extend([text] * colspan) without the colspan: one copy per cell
RowDataNoSpan(row) == [j \in 1..Len(row) |-> ResolveText(j - 1, row[j])]

\* row_data of one <tr>
RowData(row) ==
    Flatten([j \in 1..Len(row) |->
                Repeat(ResolveText(j - 1, row[j]), row[j].colspan)])

Blank == {<<>>, <<BOM>>, <<REPL>>}

\* all([cell.strip() in ['', BOM, REPL] for cell in row_data])
NoText(row_data) == \A j \in 1..Len(row_data) : strip(row_data[j]) \in Blank

\* writer without the test of lines 235-237: every row is appended
BuildWriterAll(rows) == [i \in 1..Len(rows) |-> RowData(rows[i])]

RECURSIVE BuildWriter(_)
BuildWriter(rows) ==
    IF rows = <<>> THEN <<>>
    ELSE LET row_data == RowData(Head(rows))
         IN  IF NoText(row_data)
             THEN BuildWriter(Tail(rows))
             ELSE <<row_data>> \o BuildWriter(Tail(rows))

(***************************************************************************)
(* Rendering of the grid.                                                  *)
(***************************************************************************)
\* the loop over the cells of one line, with prev_cell (None at first)
RECURSIVE FormatLoop(_, _, _, _)
FormatLoop(cells, i, has_prev, prev_cell) ==
    IF i > Len(cells) THEN <<>>
    ELSE IF has_prev /\ cells[i] = prev_cell
    THEN <<<<SP>>>> \o FormatLoop(cells, i + 1, has_prev, prev_cell)
    ELSE <<IF cells[i] # <<>> THEN cells[i] ELSE <<SP>>>>
             \o FormatLoop(cells, i + 1, TRUE, cells[i])

FormattedCells(cells) == FormatLoop(cells, 1, FALSE, <<>>)

\* "| " + " | ".join(cells) + " |"
RowString(cells) == <<PIPE, SP>> \o join(<<SP, PIPE, SP>>, cells) \o <<SP, PIPE>>

Separator(n) == RowString(Repeat(<<DASH, DASH, DASH>>, n))

\* markdown_table: every line of writer, and the separator after the first
RECURSIVE MarkdownLoop(_, _)
MarkdownLoop(lines, i) ==
    IF i > Len(lines) THEN <<>>
    ELSE <<RowString(FormattedCells(lines[i]))>>
             \o (IF i = 1 THEN <<Separator(Len(lines[i]))>> ELSE <<>>)
             \o MarkdownLoop(lines, i + 1)

\* row.split('|')[1:-1]
RawCells(row) == Inner(split(row, PIPE))

StrippedCells(row) ==
    LET cells == RawCells(row) IN [j \in 1..Len(cells) |-> strip(cells[j])]

IsSeparatorRow(cells) == \A j \in 1..Len(cells) : cells[j] = <<DASH, DASH, DASH>>

\* cell and not any(c in cell for c in [BOM, REPL, " "])
HasContent(cell) ==
    cell # <<>> /\ \A k \in 1..Len(cell) : cell[k] \notin {BOM, REPL, SP}

KeepRow(i, row) ==
    LET cells == StrippedCells(row)
    IN  \/ i = 1
        \/ IsSeparatorRow(cells)
        \/ \E j \in 1..Len(cells) : HasContent(cells[j])
        \/ cells[1] # <<>>

RECURSIVE FilterLoop(_, _)
FilterLoop(table, i) ==
    IF i > Len(table) THEN <<>>
    ELSE (IF KeepRow(i, table[i]) THEN <<table[i]>> ELSE <<>>)
             \o FilterLoop(table, i + 1)

HasDashes(row) == Contains(row, <<DASH, DASH, DASH>>)

\* the column indices (from 0) found empty in every row that holds no "---"
EmptyColIndices(rows) ==
    IF rows = <<>> \/ \A i \in 1..Len(rows) : ~HasDashes(rows[i])
    THEN {}
    ELSE LET separator_idx == CHOOSE i \in 1..Len(rows) :
                                  HasDashes(rows[i])
                                  /\ \A k \in 1..(i - 1) : ~HasDashes(rows[k])
             num_cols == Len(split(rows[separator_idx], PIPE)) - 2
         IN  {col_idx \in 0..(num_cols - 1) :
                 \A i \in 1..Len(rows) :
                     \/ HasDashes(rows[i])
                     \/ LET cells == RawCells(rows[i])
                        IN  ~(col_idx < Len(cells)
                              /\ strip(cells[col_idx + 1]) # <<>>)}

\* [cells[i] for i in range(len(cells)) if i not in empty_col_indices]
RECURSIVE DropCols(_, _, _)
DropCols(cells, i, empty) ==
    IF i > Len(cells) THEN <<>>
    ELSE (IF (i - 1) \in empty THEN <<>> ELSE <<cells[i]>>)
             \o DropCols(cells, i + 1, empty)

\* no column is removed
RemoveColumnsNever(rows, empty) == rows

RemoveColumns(rows, empty) ==
    IF empty = {} THEN rows
    ELSE [i \in 1..Len(rows) |-> RowString(DropCols(RawCells(rows[i]), 1, empty))]

(***************************************************************************)
(* parse_html_table_to_markdown as one step on a parsed <table>: raw_html  *)
(* is the markup as BeautifulSoup hands it over, the rows of the first     *)
(* table with the text, style and colspan of every td/th.                  *)
(***************************************************************************)
MaxTableCells == 3

Cell(text, style, colspan) ==
    [text |-> text, style |-> style, p_style |-> NoStyle, colspan |-> colspan]

PaddingLeft(v, unit) ==
    [NoStyle EXCEPT !.nonempty = TRUE, !.padding_left = <<[v |-> v, unit |-> unit]>>]

CellPool ==
    { Cell(<<>>, NoStyle, 1),
      Cell(<<"x">>, NoStyle, 1),
      Cell(<<"x">>, NoStyle, 2),
      Cell(<<"x", SP, "y">>, NoStyle, 1),
      Cell(<<SP>>, NoStyle, 1),
      Cell(<<NBSP>>, NoStyle, 1),
      Cell(<<BOM>>, NoStyle, 1),
      Cell(<<REPL>>, NoStyle, 1),
      Cell(<<>>, PaddingLeft(8, "px"), 1),
      Cell(<<PIPE>>, NoStyle, 1),
      Cell(<<DASH, DASH, DASH>>, NoStyle, 1) }

\* the cells of a table in document order, each marked when it opens a row
FlatTables ==
    UNION {{f \in [1..n -> CellPool \X BOOLEAN] : f[1][2]} : n \in 1..MaxTableCells}

RECURSIVE Rows(_)
Rows(flat) ==
    IF flat = <<>> THEN <<>>
    ELSE LET rest == Rows(Tail(flat))
         IN  IF Len(flat) > 1 /\ ~flat[2][2]
             THEN <<<<flat[1][1]>> \o Head(rest)>> \o Tail(rest)
             ELSE <<<<flat[1][1]>>>> \o rest

NoTable == [table |-> FALSE, rows |-> <<>>]

RawHtmls ==
    {NoTable, [table |-> TRUE, rows |-> <<>>], [table |-> TRUE, rows |-> <<<<>>>>],
     [table |-> TRUE, rows |-> <<<<>>, <<>>>>]}
        \cup {[table |-> TRUE, rows |-> Rows(f)] : f \in FlatTables}

TableIdle ==
    /\ tpc = "idle"
    /\ raw_html = NoTable
    /\ writer = <<>>
    /\ formatted = <<>>
    /\ markdown_table = <<>>
    /\ kept_rows = <<>>
    /\ empty_col_indices = {}
    /\ filtered_rows = <<>>
    /\ markdown_output = <<>>

TableInit ==
    /\ tpc = "input"
    /\ raw_html \in RawHtmls
    /\ writer = <<>>
    /\ formatted = <<>>
    /\ markdown_table = <<>>
    /\ kept_rows = <<>>
    /\ empty_col_indices = {}
    /\ filtered_rows = <<>>
    /\ markdown_output = <<>>

\* parse_html_table_to_markdown(raw_html), with its local variables kept
ParseTable ==
    /\ tpc = "input"
    /\ tpc' = "done"
    /\ LET grid == IF raw_html.table THEN BuildWriter(raw_html.rows) ELSE <<>>
           table == MarkdownLoop(grid, 1)
           kept == FilterLoop(table, 1)
           empty == EmptyColIndices(kept)
           final == RemoveColumns(kept, empty)
       IN  /\ writer' = grid
           /\ formatted' = [i \in 1..Len(grid) |-> FormattedCells(grid[i])]
           /\ markdown_table' = table
           /\ kept_rows' = kept
           /\ empty_col_indices' = empty
           /\ filtered_rows' = final
           /\ markdown_output' = join(<<NL>>, final)
    /\ UNCHANGED raw_html

VerifierIdle ==
    /\ vpc = "idle"
    /\ html_content = <<>>
    /\ value = <<>>
    /\ longest_match = <<>>
    /\ rematch = <<>>

(***************************************************************************)
(* The extraction run: process_data of run_extraction_8k.py with the       *)
(* fetch functions of fetch.py.  A file is what open() finds at the        *)
(* moment it is read; an extraction-service call is pending until the      *)
(* service answers or the call raises, in any order among the calls of     *)
(* one gather.                                                             *)
(***************************************************************************)
MaxSegments == 2
MaxLines == 2
MaxTables == 2

\* utils.parse_html_table_to_csv: the function of ParseTable, as a value
parse_html_table_to_csv(raw) ==
    LET grid == IF raw.table THEN BuildWriter(raw.rows) ELSE <<>>
        kept == FilterLoop(MarkdownLoop(grid, 1), 1)
    IN  join(<<NL>>, RemoveColumns(kept, EmptyColIndices(kept)))

UpperCase == <<"A", "B", "C", "D", "E", "F", "G", "H", "I", "J", "K", "L", "M",
               "N", "O", "P", "Q", "R", "S", "T", "U", "V", "W", "X", "Y", "Z">>
LowerCase == <<"a", "b", "c", "d", "e", "f", "g", "h", "i", "j", "k", "l", "m",
               "n", "o", "p", "q", "r", "s", "t", "u", "v", "w", "x", "y", "z">>

\* str.lower
lower(s) ==
    [i \in 1..Len(s) |->
        IF \E k \in 1..Len(UpperCase) : UpperCase[k] = s[i]
        THEN LowerCase[CHOOSE k \in 1..Len(UpperCase) : UpperCase[k] = s[i]]
        ELSE s[i]]

NoneStr == <<"N", "o", "n", "e">>
none == <<"n", "o", "n", "e">>
Unclear == <<"U", "n", "c", "l", "e", "a", "r">>

Min2(a, b) == IF a <= b THEN a ELSE b

\* the segments of the chunked document (the .json file): a text item is
\* its sentences, as get_sentences splits it; a table item holds "<table>"
Sentence(n) == Repeat("s", n)
TextItem(n) == [table |-> FALSE, sentences |-> [l \in 1..n |-> Sentence(l)]]
TableItem == [table |-> TRUE, sentences |-> <<>>]
ItemPool == {TableItem} \cup {TextItem(n) : n \in 1..MaxLines}
JsonDocs == SeqsUpTo(ItemPool, MaxSegments)
get_sentences(content) == content.sentences

\* the table chunks re.findall cuts out of the .html file
BlankTable == [table |-> TRUE, rows |-> <<<<Cell(<<>>, NoStyle, 1)>>>>]
DataTable == [table |-> TRUE, rows |-> <<<<Cell(<<"x">>, NoStyle, 1)>>>>]
TableChunkPool == {BlankTable, DataTable}
HtmlDocs == SeqsUpTo(TableChunkPool, MaxTables)

\* fetch_parsed: the call is in flight, has raised, or has a parsed answer
Pending == [status |-> "pending"]
Raise == [status |-> "raised"]
Parsed(p) == [status |-> "parsed", parsed |-> p]
\* the completion came back with message.parsed = None
Unparsed == [status |-> "unparsed"]
Answered(tasks) == \A k \in 1..Len(tasks) : tasks[k].response.status # "pending"

ExtractedOutputs ==
    {[titles |-> <<<<"R">>>>, values |-> <<<<"1">>>>, units |-> <<<<"$">>>>]}
MetricOutputs ==
    {[title |-> <<SP, "R">>, unit |-> <<"$">>, type_ |-> <<"a">>, category |-> <<"c">>],
     [title |-> NoneStr, unit |-> <<"$">>, type_ |-> <<"a">>, category |-> <<"c">>]}
\* a list of one metric, and a list whose first metrics have a blank title
\* and the title " nONE "
MetricListOutputs ==
    {[data |-> <<m>>] : m \in MetricOutputs}
        \cup {[data |-> <<[title |-> <<SP>>, unit |-> <<"$">>,
                           type_ |-> <<"a">>, category |-> <<"c">>],
                          [title |-> <<SP, "n", "O", "N", "E", SP>>, unit |-> <<"$">>,
                           type_ |-> <<"a">>, category |-> <<"c">>],
                          [title |-> <<"R", SP>>, unit |-> <<"$">>,
                           type_ |-> <<"a">>, category |-> <<"c">>]>>]}
CellOutputs ==
    {[value |-> <<"1">>, period |-> <<"Q">>], [value |-> NoneStr, period |-> <<"Q">>],
     [value |-> <<SP>>, period |-> <<"Q">>], [value |-> <<"2", SP>>, period |-> <<"Y">>]}
\* one cell, the same cell twice, and two rejected cells before a kept one
CellListOutputs ==
    {[data |-> <<[value |-> <<"1">>, period |-> <<"Q">>]>>],
     [data |-> <<[value |-> <<"1">>, period |-> <<"Q">>],
                 [value |-> <<"1">>, period |-> <<"Q">>]>>],
     [data |-> <<[value |-> NoneStr, period |-> <<"Q">>],
                 [value |-> <<SP>>, period |-> <<"Q">>],
                 [value |-> <<"2", SP>>, period |-> <<"Y">>]>>]}
AuditingOutputs == {[type_ |-> <<"a">>, period |-> <<"Q">>, unit |-> <<"%">>]}
CategoryOutputs == {[category |-> <<"c">>]}

Responses(outputs) == {Raise} \cup {Parsed(p) : p \in outputs}
TableResponses(outputs) == Responses(outputs) \cup {Unparsed}

\* fetch_line of _fetch_extracted_output
fetch_line(response) ==
    IF response.status = "raised"
    THEN [kpis |-> <<>>, values |-> <<>>, units |-> <<>>]
    ELSE response.parsed

\* result['titles'] of _fetch_extracted_output raises KeyError
KeyErrorTitles(results) ==
    \E i \in 1..Len(results) : "titles" \notin DOMAIN results[i]

\* the variant that zips the results with the lines in reverse
_fetch_extracted_output_reversed(lines, results) ==
    Flatten([i \in 1..Min2(Len(results), Len(lines)) |->
        [j \in 1..Min2(Len(results[i].titles),
                       Min2(Len(results[i].values), Len(results[i].units))) |->
            [title |-> results[i].titles[j],
             value |-> results[i].values[j],
             unit |-> results[i].units[j],
             reference |-> lines[Len(lines) + 1 - i]]]])

\* final_result of _fetch_extracted_output, when no KeyError is raised
_fetch_extracted_output(lines, results) ==
    Flatten([i \in 1..Min2(Len(results), Len(lines)) |->
        [j \in 1..Min2(Len(results[i].titles),
                       Min2(Len(results[i].values), Len(results[i].units))) |->
            [title |-> results[i].titles[j],
             value |-> results[i].values[j],
             unit |-> results[i].units[j],
             reference |-> lines[i]]]])

_fetch_auditing_output(response) ==
    IF response.status = "raised"
    THEN [type_ |-> NoneStr, period |-> NoneStr, unit |-> NoneStr]
    ELSE response.parsed

\* {**a, **b}
Merge(a, b) ==
    [k \in DOMAIN a \cup DOMAIN b |-> IF k \in DOMAIN b THEN b[k] ELSE a[k]]

_fetch_classification_output(result, response) ==
    IF response.status = "raised"
    THEN Merge(result, [category |-> Unclear])
    ELSE Merge(result, [category |-> response.parsed.category])

\* the test on the title without the comparison with 'none'
KeepMetricNotBlank(metric) == strip(metric.title) # <<>>

\* the metrics kept by _fetch_table_data_rowwise
KeepMetric(metric) ==
    strip(metric.title) # <<>> /\ strip(lower(metric.title)) # none

\* the loop without the test on the title: every metric is appended
RECURSIVE RowwiseLoopAll(_, _, _, _)
RowwiseLoopAll(temp_table_data, metrics, i, result) ==
    IF i > Len(metrics) THEN result
    ELSE RowwiseLoopAll(temp_table_data, metrics, i + 1,
            Append(result,
                [index |-> temp_table_data.index,
                 category |-> strip(metrics[i].category),
                 title |-> strip(metrics[i].title),
                 unit |-> strip(metrics[i].unit),
                 type_ |-> strip(metrics[i].type_),
                 reference |-> temp_table_data.reference]))

RECURSIVE RowwiseLoop(_, _, _, _)
RowwiseLoop(temp_table_data, metrics, i, result) ==
    IF i > Len(metrics) THEN result
    ELSE RowwiseLoop(temp_table_data, metrics, i + 1,
            IF KeepMetric(metrics[i])
            THEN Append(result,
                    [index |-> temp_table_data.index,
                     category |-> strip(metrics[i].category),
                     title |-> strip(metrics[i].title),
                     unit |-> strip(metrics[i].unit),
                     type_ |-> strip(metrics[i].type_),
                     reference |-> temp_table_data.reference])
            ELSE result)

\* the failure of the call is answered with a descriptor of "None" fields
_fetch_table_data_rowwise_sentinel(temp_table_data, response) ==
    IF response.status # "parsed"
    THEN <<[index |-> temp_table_data.index, category |-> NoneStr,
            title |-> NoneStr, unit |-> NoneStr, type_ |-> NoneStr,
            reference |-> temp_table_data.reference]>>
    ELSE RowwiseLoop(temp_table_data, response.parsed.data, 1, <<>>)

\* a call that raised, or table_output = None, ends in the except branch
_fetch_table_data_rowwise(temp_table_data, response) ==
    IF response.status # "parsed" THEN <<>>
    ELSE RowwiseLoop(temp_table_data, response.parsed.data, 1, <<>>)

\* the loop with the index counted from 1
RECURSIVE CellwiseLoopOneBased(_, _, _, _)
CellwiseLoopOneBased(metric_data, cells, i, result) ==
    IF i > Len(cells) THEN result
    ELSE CellwiseLoopOneBased(metric_data, cells, i + 1,
            IF strip(cells[i].value) # <<>> /\ strip(lower(cells[i].value)) # none
            THEN Append(result,
                    [index |-> metric_data.index + 1,
                     category |-> metric_data.category,
                     title |-> metric_data.title,
                     value |-> strip(cells[i].value),
                     unit |-> metric_data.unit,
                     period |-> strip(cells[i].period),
                     type_ |-> metric_data.type_,
                     reference |-> metric_data.reference])
            ELSE result)

\* the loop of _fetch_table_data_cellwise: added_cell is a new set in
\* every iteration
RECURSIVE CellwiseLoop(_, _, _, _)
CellwiseLoop(metric_data, cells, i, result) ==
    IF i > Len(cells) THEN result
    ELSE LET cell == cells[i]
             added_cell == {}
         IN  CellwiseLoop(metric_data, cells, i + 1,
                IF /\ strip(cell.value) # <<>>
                   /\ strip(lower(cell.value)) # none
                   /\ <<cell.value, cell.period>> \notin added_cell
                THEN Append(result,
                        [index |-> metric_data.index,
                         category |-> metric_data.category,
                         title |-> metric_data.title,
                         value |-> strip(cell.value),
                         unit |-> metric_data.unit,
                         period |-> strip(cell.period),
                         type_ |-> metric_data.type_,
                         reference |-> metric_data.reference])
                ELSE result)

_fetch_table_data_cellwise(metric_data, response) ==
    IF response.status # "parsed" THEN <<>>
    ELSE CellwiseLoop(metric_data, response.parsed.data, 1, <<>>)

\* the orders in which n concurrent tasks can complete
CompletionOrders(n) ==
    {p \in [1..n -> 1..n] : \A a, b \in 1..n : p[a] = p[b] => a = b}

\* tqdm.gather: the results are taken as the tasks complete, each paired
\* with the position of its task, and handed back sorted by position
as_completed(results, order) ==
    [n \in 1..Len(results) |-> <<order[n], results[order[n]]>>]

\* the results in the order of completion, positions dropped
gather_unsorted(results, order) ==
    [n \in 1..Len(results) |-> as_completed(results, order)[n][2]]

gather(results, order) ==
    LET res == as_completed(results, order)
    IN  [i \in 1..Len(res) |->
            res[CHOOSE n \in 1..Len(res) : res[n][1] = i][2]]

\* what gather can hand back for tasks with the given results, over every
\* order of completion
Gathered(results) ==
    {gather(results, order) : order \in CompletionOrders(Len(results))}

\* the completion orders of the fetch_line calls of every text task
LineOrders(tasks) ==
    {f \in [1..Len(tasks) -> UNION {CompletionOrders(n) : n \in 0..MaxLines}] :
        \A k \in 1..Len(tasks) : DOMAIN f[k] = 1..Len(tasks[k].results)}

RunIdle ==
    /\ rpc = "idle"
    /\ error = "none"
    /\ data = <<>>
    /\ original_indices_and_content = <<>>
    /\ text_tasks = <<>>
    /\ all_extracted_results = <<>>
    /\ row_tasks = <<>>
    /\ metrics_by_table_index = <<>>
    /\ cell_tasks = <<>>
    /\ table_data = <<>>
    /\ auditing_tasks = <<>>
    /\ extracted_data_for_merge = <<>>
    /\ final_results = <<>>
    /\ classification_tasks = <<>>
    /\ auditing_file = <<>>
    /\ classification_file = <<>>
    /\ calls = <<>>

\* asyncio.run(process_data(...)) has been entered
RunInit ==
    /\ rpc = "start"
    /\ error = "none"
    /\ data = <<>>
    /\ original_indices_and_content = <<>>
    /\ text_tasks = <<>>
    /\ all_extracted_results = <<>>
    /\ row_tasks = <<>>
    /\ metrics_by_table_index = <<>>
    /\ cell_tasks = <<>>
    /\ table_data = <<>>
    /\ auditing_tasks = <<>>
    /\ extracted_data_for_merge = <<>>
    /\ final_results = <<>>
    /\ classification_tasks = <<>>
    /\ auditing_file = <<>>
    /\ classification_file = <<>>
    /\ calls = <<>>

\* the positions of the text items of a document, in order
TextPositions(items) ==
    LET Pos[i \in 0..Len(items)] ==
            IF i = 0 THEN <<>>
            ELSE IF ~items[i].content.table THEN Append(Pos[i - 1], i)
            ELSE Pos[i - 1]
    IN  Pos[Len(items)]

\* open(input_file) or json.load raises
ReadJsonFails ==
    /\ rpc = "start"
    /\ rpc' = "raised"
    /\ error' = "json"
    /\ UNCHANGED <<data, original_indices_and_content, text_tasks,
                   all_extracted_results, row_tasks, metrics_by_table_index,
                   cell_tasks, table_data, auditing_tasks,
                   extracted_data_for_merge, final_results,
                   classification_tasks, auditing_file, classification_file,
                   calls>>

\* the chunked document is read and one _fetch_extracted_output task per
\* text item is handed to gather; every task calls the service once per line
ReadJson ==
    /\ rpc = "start"
    /\ \E doc \in JsonDocs :
        LET items == [i \in 1..Len(doc) |-> [content |-> doc[i]]]
            pos == TextPositions(items)
        IN  /\ data' = items
            /\ original_indices_and_content' =
                   [k \in 1..Len(pos) |-> <<pos[k] - 1, items[pos[k]].content>>]
            /\ text_tasks' =
                   [k \in 1..Len(pos) |->
                       [lines |-> get_sentences(items[pos[k]].content),
                        results |-> [l \in 1..Len(get_sentences(items[pos[k]].content))
                                        |-> Pending]]]
            /\ calls' = calls \o Flatten(
                   [k \in 1..Len(pos) |->
                       [l \in 1..Len(get_sentences(items[pos[k]].content)) |->
                           [stage |-> "extract", index |-> pos[k] - 1, line |-> l]]])
    /\ rpc' = "extract"
    /\ UNCHANGED <<error, all_extracted_results, row_tasks,
                   metrics_by_table_index, cell_tasks, table_data,
                   auditing_tasks, extracted_data_for_merge, final_results,
                   classification_tasks, auditing_file, classification_file>>

\* the service call of one fetch_line returns or raises
FetchLineReturns ==
    /\ rpc = "extract"
    /\ \E k \in 1..Len(text_tasks) :
       \E l \in 1..Len(text_tasks[k].results) :
       \E response \in Responses(ExtractedOutputs) :
           /\ text_tasks[k].results[l] = Pending
           /\ text_tasks' =
                  [text_tasks EXCEPT ![k].results[l] = fetch_line(response)]
    /\ UNCHANGED <<rpc, error, data, original_indices_and_content,
                   all_extracted_results, row_tasks, metrics_by_table_index,
                   cell_tasks, table_data, auditing_tasks,
                   extracted_data_for_merge, final_results,
                   classification_tasks, auditing_file, classification_file,
                   calls>>

\* every fetch_line of the task has returned
LinesDone(task) == \A l \in 1..Len(task.results) : task.results[l] # Pending

\* gather of the _fetch_extracted_output tasks: a task whose lines are
\* done builds its final_result or raises KeyError, and the first
\* exception leaves gather and process_data
GatherExtracted ==
    /\ rpc = "extract"
    /\ \/ /\ \E k \in 1..Len(text_tasks) :
                LinesDone(text_tasks[k]) /\ KeyErrorTitles(text_tasks[k].results)
          /\ rpc' = "raised"
          /\ error' = "KeyError"
          /\ UNCHANGED <<text_tasks, all_extracted_results>>
       \/ /\ \A k \in 1..Len(text_tasks) :
                LinesDone(text_tasks[k]) /\ ~KeyErrorTitles(text_tasks[k].results)
          /\ \E line_order \in LineOrders(text_tasks) :
                 all_extracted_results' \in Gathered(
                     [k \in 1..Len(text_tasks) |->
                         _fetch_extracted_output(
                             text_tasks[k].lines,
                             gather(text_tasks[k].results, line_order[k]))])
          /\ text_tasks' = <<>>
          /\ rpc' = "read_html"
          /\ UNCHANGED error
    /\ UNCHANGED <<data, original_indices_and_content, row_tasks,
                   metrics_by_table_index, cell_tasks, table_data,
                   auditing_tasks, extracted_data_for_merge, final_results,
                   classification_tasks, auditing_file, classification_file,
                   calls>>

\* open of the .html file raises
ReadHtmlFails ==
    /\ rpc = "read_html"
    /\ rpc' = "raised"
    /\ error' = "html"
    /\ UNCHANGED <<data, original_indices_and_content, text_tasks,
                   all_extracted_results, row_tasks, metrics_by_table_index,
                   cell_tasks, table_data, auditing_tasks,
                   extracted_data_for_merge, final_results,
                   classification_tasks, auditing_file, classification_file,
                   calls>>

\* the .html file is read, data is rebuilt from its tables and one
\* _fetch_table_data_rowwise task per table is handed to gather
ReadHtml ==
    /\ rpc = "read_html"
    /\ \E table_chunks \in HtmlDocs :
        LET items == [i \in 1..Len(table_chunks) |-> [content |-> table_chunks[i]]]
        IN  /\ data' = items
            /\ row_tasks' =
                   [i \in 1..Len(items) |->
                       [table_data |->
                            [index |-> i - 1,
                             reference |-> parse_html_table_to_csv(items[i].content)],
                        response |-> Pending]]
            /\ metrics_by_table_index' = [i \in 1..Len(items) |-> <<>>]
            /\ calls' = calls \o
                   [i \in 1..Len(items) |-> [stage |-> "rowwise", index |-> i - 1]]
    /\ rpc' = "rowwise"
    /\ UNCHANGED <<error, original_indices_and_content, text_tasks,
                   all_extracted_results, cell_tasks, table_data,
                   auditing_tasks, extracted_data_for_merge, final_results,
                   classification_tasks, auditing_file, classification_file>>

\* the service call of one _fetch_table_data_rowwise returns or raises
RowwiseReturns ==
    /\ rpc = "rowwise"
    /\ \E i \in 1..Len(row_tasks) :
       \E response \in TableResponses(MetricListOutputs) :
           /\ row_tasks[i].response = Pending
           /\ row_tasks' = [row_tasks EXCEPT ![i].response = response]
    /\ UNCHANGED <<rpc, error, data, original_indices_and_content, text_tasks,
                   all_extracted_results, metrics_by_table_index, cell_tasks,
                   table_data, auditing_tasks, extracted_data_for_merge,
                   final_results, classification_tasks, auditing_file,
                   classification_file, calls>>

\* the cell phase is entered without awaiting the gather of the row tasks
GatherRowsUnawaited ==
    /\ rpc = "rowwise"
    /\ rpc' = "cellwise"
    /\ calls' = Append(calls, [stage |-> "cellwise", index |-> 0])
    /\ UNCHANGED <<error, data, original_indices_and_content, text_tasks,
                   all_extracted_results, row_tasks, metrics_by_table_index,
                   cell_tasks, table_data, auditing_tasks,
                   extracted_data_for_merge, final_results,
                   classification_tasks, auditing_file, classification_file>>

\* gather of the row tasks; the metrics are stored by table index and one
\* _fetch_table_data_cellwise task per metric is handed to gather
GatherRows ==
    /\ rpc = "rowwise"
    /\ Answered(row_tasks)
    /\ \E row_results \in Gathered(
               [i \in 1..Len(row_tasks) |->
                   _fetch_table_data_rowwise(row_tasks[i].table_data,
                                             row_tasks[i].response)]) :
       LET metric_with_reference(i, metric) ==
               Merge(metric,
                     [index |-> i - 1,
                      reference |-> parse_html_table_to_csv(data[i].content)])
       IN  /\ metrics_by_table_index' = row_results
           /\ cell_tasks' = Flatten(
                  [i \in 1..Len(row_results) |->
                      [m \in 1..Len(row_results[i]) |->
                          [metric_data |-> metric_with_reference(i, row_results[i][m]),
                           response |-> Pending]]])
           /\ calls' = calls \o Flatten(
                  [i \in 1..Len(row_results) |->
                      [m \in 1..Len(row_results[i]) |->
                          [stage |-> "cellwise", index |-> i - 1]]])
    /\ row_tasks' = <<>>
    /\ rpc' = "cellwise"
    /\ UNCHANGED <<error, data, original_indices_and_content, text_tasks,
                   all_extracted_results, table_data, auditing_tasks,
                   extracted_data_for_merge, final_results,
                   classification_tasks, auditing_file, classification_file>>

\* the service call of one _fetch_table_data_cellwise returns or raises
CellwiseReturns ==
    /\ rpc = "cellwise"
    /\ \E j \in 1..Len(cell_tasks) :
       \E response \in TableResponses(CellListOutputs) :
           /\ cell_tasks[j].response = Pending
           /\ cell_tasks' = [cell_tasks EXCEPT ![j].response = response]
    /\ UNCHANGED <<rpc, error, data, original_indices_and_content, text_tasks,
                   all_extracted_results, row_tasks, metrics_by_table_index,
                   table_data, auditing_tasks, extracted_data_for_merge,
                   final_results, classification_tasks, auditing_file,
                   classification_file, calls>>

\* gather of the cell tasks; the records are merged into table_data and
\* one _fetch_auditing_output task per text result is handed to gather
GatherCells ==
    /\ rpc = "cellwise"
    /\ Answered(cell_tasks)
    /\ \E cell_results \in Gathered(
               [j \in 1..Len(cell_tasks) |->
                   _fetch_table_data_cellwise(cell_tasks[j].metric_data,
                                              cell_tasks[j].response)]) :
           table_data' = Flatten(cell_results)
    /\ auditing_tasks' = Flatten(
           [idx \in 1..Len(all_extracted_results) |->
               [e \in 1..Len(all_extracted_results[idx]) |->
                   [chunk |-> original_indices_and_content[idx][2],
                    line_data |-> all_extracted_results[idx][e],
                    response |-> Pending]]])
    /\ extracted_data_for_merge' = Flatten(
           [idx \in 1..Len(all_extracted_results) |->
               [e \in 1..Len(all_extracted_results[idx]) |->
                   Merge([_id |-> original_indices_and_content[idx][1]],
                         all_extracted_results[idx][e])]])
    /\ calls' = calls \o Flatten(
           [idx \in 1..Len(all_extracted_results) |->
               [e \in 1..Len(all_extracted_results[idx]) |->
                   [stage |-> "auditing",
                    index |-> original_indices_and_content[idx][1]]]])
    /\ cell_tasks' = <<>>
    /\ rpc' = "auditing"
    /\ UNCHANGED <<error, data, original_indices_and_content, text_tasks,
                   all_extracted_results, row_tasks, metrics_by_table_index,
                   final_results, classification_tasks, auditing_file,
                   classification_file>>

\* the service call of one _fetch_auditing_output returns or raises
AuditingReturns ==
    /\ rpc = "auditing"
    /\ \E k \in 1..Len(auditing_tasks) :
       \E response \in Responses(AuditingOutputs) :
           /\ auditing_tasks[k].response = Pending
           /\ auditing_tasks' = [auditing_tasks EXCEPT ![k].response = response]
    /\ UNCHANGED <<rpc, error, data, original_indices_and_content, text_tasks,
                   all_extracted_results, row_tasks, metrics_by_table_index,
                   cell_tasks, table_data, extracted_data_for_merge,
                   final_results, classification_tasks, auditing_file,
                   classification_file, calls>>

\* the record process_data writes for a text result
Written(result) ==
    [index |-> result._id, title |-> result.title, value |-> result.value,
     unit |-> result.unit, period |-> result.period, type_ |-> result.type_,
     reference |-> result.reference]

\* gather of the auditing tasks; the merged results are written and one
\* _fetch_classification_output task per result is handed to gather
GatherAuditing ==
    /\ rpc = "auditing"
    /\ Answered(auditing_tasks)
    /\ \E auditing_results_list \in Gathered(
               [k \in 1..Len(auditing_tasks) |->
                   _fetch_auditing_output(auditing_tasks[k].response)]) :
       LET merged ==
               [k \in 1..Min2(Len(extracted_data_for_merge),
                              Len(auditing_results_list)) |->
                   Merge(extracted_data_for_merge[k], auditing_results_list[k])]
       IN  /\ final_results' = merged
           /\ auditing_file' = [k \in 1..Len(merged) |-> Written(merged[k])]
           /\ classification_tasks' =
                  [k \in 1..Len(merged) |->
                      [result |-> merged[k], response |-> Pending]]
           /\ calls' = calls \o
                  [k \in 1..Len(merged) |->
                      [stage |-> "classification", index |-> merged[k]._id]]
    /\ auditing_tasks' = <<>>
    /\ rpc' = "classification"
    /\ UNCHANGED <<error, data, original_indices_and_content, text_tasks,
                   all_extracted_results, row_tasks, metrics_by_table_index,
                   cell_tasks, table_data, extracted_data_for_merge,
                   classification_file>>

\* the service call of one _fetch_classification_output returns or raises
ClassificationReturns ==
    /\ rpc = "classification"
    /\ \E k \in 1..Len(classification_tasks) :
       \E response \in Responses(CategoryOutputs) :
           /\ classification_tasks[k].response = Pending
           /\ classification_tasks' =
                  [classification_tasks EXCEPT ![k].response = response]
    /\ UNCHANGED <<rpc, error, data, original_indices_and_content, text_tasks,
                   all_extracted_results, row_tasks, metrics_by_table_index,
                   cell_tasks, table_data, auditing_tasks,
                   extracted_data_for_merge, final_results, auditing_file,
                   classification_file, calls>>

\* gather of the classification tasks; the text records and then the table
\* records are written
GatherClassification ==
    /\ rpc = "classification"
    /\ Answered(classification_tasks)
    /\ \E classification_results \in Gathered(
               [k \in 1..Len(classification_tasks) |->
                   _fetch_classification_output(classification_tasks[k].result,
                                                classification_tasks[k].response)]) :
           classification_file' =
               [k \in 1..Len(classification_results) |->
                   Merge(Written(classification_results[k]),
                         [category |-> classification_results[k].category])]
                   \o table_data
    /\ classification_tasks' = <<>>
    /\ rpc' = "done"
    /\ UNCHANGED <<error, data, original_indices_and_content, text_tasks,
                   all_extracted_results, row_tasks, metrics_by_table_index,
                   cell_tasks, table_data, auditing_tasks,
                   extracted_data_for_merge, final_results, auditing_file,
                   calls>>

(***************************************************************************)
(* The fetcher: AsyncOpenAIAPIFetcher of api_fetcher.py with the retry      *)
(* decorator retry_fetch of utils.py.  Several calls are in progress at    *)
(* once; every attempt of a call reaches the service and returns a         *)
(* completion or raises.                                                   *)
(***************************************************************************)
MaxFetches == 3

\* retry_fetch(0.01, 1): wait_fixed(0.01), in milliseconds, and
\* stop_after_attempt(1)
WaitMs == 10
MaxRetries == 1

Methods == {"fetch_chat_completion", "fetch_parsed_completion"}

\* the method is wrapped by the tenacity decorator: the line before
\* fetch_parsed_completion calls retry_fetch without applying it
Decorated(method) == method = "fetch_chat_completion"

NoFetch == [method |-> "none", state |-> "idle", attempt_number |-> 0,
            waited |-> 0, result |-> "none"]

FetcherIdle == fetches = <<>>

FetcherInit == fetches = [i \in 1..MaxFetches |-> NoFetch]

\* a method of the fetcher is called: its first attempt starts
CallFetcher ==
    \E i \in 1..MaxFetches : \E method \in Methods :
        /\ fetches[i].state = "idle"
        /\ fetches' = [fetches EXCEPT ![i] =
               [method |-> method, state |-> "attempting",
                attempt_number |-> 1, waited |-> 0, result |-> "none"]]

\* the service answers the attempt with a completion
AttemptReturns ==
    \E i \in 1..MaxFetches :
        /\ fetches[i].state = "attempting"
        /\ fetches' = [fetches EXCEPT ![i].state = "returned",
                                      ![i].result = "completion"]

\* the attempt raises: a wrapped method stops at attempt MaxRetries with
\* the value of handle_max_retries and otherwise waits and tries again; a
\* bare method lets the exception through
AttemptRaises ==
    \E i \in 1..MaxFetches :
        /\ fetches[i].state = "attempting"
        /\ fetches' =
               IF ~Decorated(fetches[i].method)
               THEN [fetches EXCEPT ![i].state = "raised",
                                    ![i].result = "exception"]
               ELSE IF fetches[i].attempt_number >= MaxRetries
               THEN [fetches EXCEPT ![i].state = "returned",
                                    ![i].result = "DEFAULT_EMPTY_PARSED_COMPLETION"]
               ELSE [fetches EXCEPT ![i].attempt_number = @ + 1,
                                    ![i].waited = @ + WaitMs]

(***************************************************************************)
(* is_numeric_value (src/src/utils.py, and its copy in src/table.py) and   *)
(* the float() conversion it ends with.                                    *)
(***************************************************************************)
MaxNumericLen == 4

Digits == <<"0", "1", "2", "3", "4", "5", "6", "7", "8", "9">>
IsDigit(c) == \E k \in 1..Len(Digits) : Digits[k] = c
DigitValue(c) == (CHOOSE k \in 1..Len(Digits) : Digits[k] = c) - 1

\* digits, with single underscores between digits
IsDigitPart(s) ==
    /\ s # <<>>
    /\ \A i \in 1..Len(s) :
           \/ IsDigit(s[i])
           \/ /\ s[i] = "_"
              /\ 1 < i /\ i < Len(s)
              /\ IsDigit(s[i - 1]) /\ IsDigit(s[i + 1])

RECURSIVE DigitsValue(_, _)
DigitsValue(s, acc) ==
    IF s = <<>> THEN acc
    ELSE DigitsValue(Tail(s), IF Head(s) = "_" THEN acc
                              ELSE acc * 10 + DigitValue(Head(s)))

CountDigits(s) == Cardinality({i \in 1..Len(s) : IsDigit(s[i])})

ValueError == [ok |-> FALSE, kind |-> "error", negative |-> FALSE,
               mantissa |-> 0, exponent |-> 0]

Finite(negative, mantissa, exponent) ==
    [ok |-> TRUE, kind |-> "finite", negative |-> negative,
     mantissa |-> mantissa, exponent |-> exponent]

\* digitpart ["." [digitpart]] | "." digitpart : the number is
\* mantissa * 10^exponent
PointFloat(s) ==
    LET dots == {i \in 1..Len(s) : s[i] = "."}
    IN  IF dots = {}
        THEN IF IsDigitPart(s) THEN Finite(FALSE, DigitsValue(s, 0), 0)
             ELSE ValueError
        ELSE LET k == CHOOSE i \in dots : \A j \in dots : i <= j
                 whole == SubSeq(s, 1, k - 1)
                 frac == SubSeq(s, k + 1, Len(s))
             IN  IF \/ IsDigitPart(whole) /\ (frac = <<>> \/ IsDigitPart(frac))
                    \/ whole = <<>> /\ IsDigitPart(frac)
                 THEN Finite(FALSE, DigitsValue(whole \o frac, 0),
                             0 - CountDigits(frac))
                 ELSE ValueError

\* pointfloat [("e" | "E") ["+" | "-"] digitpart]
FloatNumber(s) ==
    LET es == {i \in 1..Len(s) : s[i] \in {"e", "E"}}
    IN  IF es = {} THEN PointFloat(s)
        ELSE LET k == CHOOSE i \in es : \A j \in es : i <= j
                 significand == PointFloat(SubSeq(s, 1, k - 1))
                 rest == SubSeq(s, k + 1, Len(s))
                 signed == rest # <<>> /\ Head(rest) \in {"+", "-"}
                 digits == IF signed THEN Tail(rest) ELSE rest
                 e == DigitsValue(digits, 0)
             IN  IF significand.ok /\ IsDigitPart(digits)
                 THEN Finite(FALSE, significand.mantissa,
                             significand.exponent
                                 + (IF signed /\ Head(rest) = "-" THEN 0 - e ELSE e))
                 ELSE ValueError

Specials == {<<"i", "n", "f">>, <<"i", "n", "f", "i", "n", "i", "t", "y">>,
             <<"n", "a", "n">>}

\* float(s): white space around the number is ignored, then an optional sign
\* and a number, "inf", "infinity" or "nan"
float(s) ==
    LET t == strip(s)
        signed == t # <<>> /\ Head(t) \in {"+", "-"}
        negative == signed /\ Head(t) = "-"
        body == IF signed THEN Tail(t) ELSE t
    IN  IF lower(body) \in Specials
        THEN [ok |-> TRUE, kind |-> IF lower(body) = <<"n", "a", "n">> THEN "nan" ELSE "inf",
              negative |-> negative, mantissa |-> 0, exponent |-> 0]
        ELSE [FloatNumber(body) EXCEPT !.negative = negative /\ FloatNumber(body).ok]

\* str.replace(c, '')
remove(s, c) == SelectSeq(s, LAMBDA x : x # c)

startswith(s, c) == s # <<>> /\ Head(s) = c
endswith(s, c) == s # <<>> /\ s[Len(s)] = c

\* the text handed to float(), lines 170-190; <<>> stands for the early
\* "return False" of a text that is blank or a placeholder
cleaned_text(t) ==
    LET stripped == strip(t)
        is_negative == startswith(stripped, "(") /\ endswith(stripped, ")")
        inner == IF is_negative THEN SubSeq(stripped, 2, Len(stripped) - 1)
                 ELSE stripped
        cleaned == remove(remove(inner, "$"), ",")
    IN  IF stripped = <<>> THEN <<>>
        ELSE IF cleaned = <<DASH>> \/ cleaned = <<>> THEN <<>>
        ELSE IF is_negative THEN <<DASH>> \o cleaned
        ELSE cleaned

\* is_numeric_value without the parentheses rule
is_numeric_value_plain(t) ==
    LET cleaned == remove(remove(strip(t), "$"), ",")
    IN  cleaned # <<>> /\ cleaned # <<DASH>> /\ float(cleaned).ok

is_numeric_value(t) == cleaned_text(t) # <<>> /\ float(cleaned_text(t)).ok

NumericChars == {"(", ")", "$", ",", DASH, ".", "1", SP, "e", "_"}

\* the amount of the docstring
ParenthesisedAmount == <<"(", "1", ",", "2", "3", "4", ".", "5", "6", ")">>

NumericIdle == npc = "idle" /\ numeric_text = <<>> /\ numeric = FALSE

NumericInit ==
    /\ npc = "input"
    /\ numeric_text \in SeqsUpTo(NumericChars, MaxNumericLen) \cup {ParenthesisedAmount}
    /\ numeric = FALSE

\* numeric = is_numeric_value(text)
IsNumericValue ==
    /\ npc = "input"
    /\ numeric' = is_numeric_value(numeric_text)
    /\ npc' = "done"
    /\ UNCHANGED numeric_text

(***************************************************************************)
(* The segment matcher: duplicate_token_count (src/src/utils.py) scores a  *)
(* candidate against the target; the choice among the candidates is not in *)
(* the source files and follows the specification: the greatest score, the *)
(* first candidate on ties, no match when every score is zero.             *)
(***************************************************************************)
MaxCandidates == 3

\* word_tokenize: the words between white space, a comma being a token of
\* its own
RECURSIVE TokenLoop(_, _, _)
TokenLoop(s, word, tokens) ==
    LET flushed == IF word = <<>> THEN tokens ELSE Append(tokens, word)
    IN  IF s = <<>> THEN flushed
        ELSE IF IsSpace(Head(s)) THEN TokenLoop(Tail(s), <<>>, flushed)
        ELSE IF Head(s) = "," THEN TokenLoop(Tail(s), <<>>, Append(flushed, <<",">>))
        ELSE TokenLoop(Tail(s), Append(word, Head(s)), tokens)

word_tokenize(s) == TokenLoop(s, <<>>, <<>>)

\* set(...)
set(s) == {s[i] : i \in 1..Len(s)}

\* the count without .lower()
duplicate_token_count_cased(text_a, text_b) ==
    Cardinality(set(word_tokenize(text_a)) \cap set(word_tokenize(text_b)))

duplicate_token_count(text_a, text_b) ==
    LET tokens_a == set(word_tokenize(lower(text_a)))
        tokens_b == set(word_tokenize(lower(text_b)))
    IN  Cardinality(tokens_a \cap tokens_b)

NoMatch == 0

\* the candidate with the strictly greatest score so far, from the first
RECURSIVE MatchLoop(_, _, _, _)
MatchLoop(counts, i, best, best_score) ==
    IF i > Len(counts) THEN best
    ELSE IF counts[i] > best_score
    THEN MatchLoop(counts, i + 1, i, counts[i])
    ELSE MatchLoop(counts, i + 1, best, best_score)

best_candidate(counts) == MatchLoop(counts, 1, NoMatch, 0)

SegmentTexts ==
    { <<>>,
      <<"n", "e", "t">>,
      <<"N", "e", "t", SP, "x">>,
      <<"x", ",", "y">>,
      <<"Y", SP, "n", "e", "t", SP, "x">>,
      <<"z">> }

MatcherIdle ==
    /\ mpc = "idle"
    /\ candidates = <<>>
    /\ target = <<>>
    /\ scores = <<>>
    /\ best_match = NoMatch

MatcherInit ==
    /\ mpc = "input"
    /\ candidates \in SeqsUpTo(SegmentTexts, MaxCandidates)
    /\ target \in SegmentTexts
    /\ scores = <<>>
    /\ best_match = NoMatch

\* every candidate is scored against the target and the best is chosen
MatchSegment ==
    /\ mpc = "input"
    /\ LET counts == [i \in 1..Len(candidates) |->
                         duplicate_token_count(candidates[i], target)]
       IN  /\ scores' = counts
           /\ best_match' = best_candidate(counts)
    /\ mpc' = "done"
    /\ UNCHANGED <<candidates, target>>

(***************************************************************************)
(* The indentation of one cell: lines 145-231 of                           *)
(* parse_html_table_to_markdown on a cell with its style, at position idx  *)
(* of its row.                                                             *)
(***************************************************************************)
Length(v, unit) == [v |-> v, unit |-> unit]

\* a declaration is absent or has one length
Declarations ==
    {<<>>, <<Length(0, "px")>>, <<Length(8, "px")>>, <<Length(24, "px")>>,
     <<Length(1, "em")>>, <<Length(6, "pt")>>, <<Length(-8, "px")>>}

\* the padding shorthand is absent or has two or four lengths
Shorthands ==
    {<<>>}
        \cup {<<top, left>> :
                top \in {Length(0, "px"), Length(16, "px")},
                left \in {Length(0, "px"), Length(32, "px"), Length(2, "em")}}
        \cup {<<top, Length(0, "px"), Length(0, "px"), left>> :
                top \in {Length(0, "px"), Length(16, "px")},
                left \in {Length(32, "px"), Length(2, "em")}}

Styles ==
    {[nonempty |-> pl # <<>> \/ p # <<>> \/ ti # <<>> \/ ml # <<>>,
      padding_left |-> pl, padding |-> p, text_indent |-> ti, margin_left |-> ml] :
        pl \in Declarations, p \in Shorthands, ti \in Declarations,
        ml \in {<<>>, <<Length(8, "px")>>, <<Length(1, "em")>>}}

IndentTexts ==
    {<<"x">>, <<SP, SP, "x">>, <<NBSP, "x", NbspEntity>>}

IndentCells ==
    {[text |-> t, style |-> s, p_style |-> ps, colspan |-> 1] :
        t \in IndentTexts, s \in Styles,
        ps \in {NoStyle, PaddingLeft(16, "px")}}

IndentIdle ==
    /\ ipc = "idle"
    /\ indent_cell = Cell(<<>>, NoStyle, 1)
    /\ indent_idx = 0
    /\ cell_indent_px = 0
    /\ indent_text = <<>>

IndentInit ==
    /\ ipc = "input"
    /\ indent_cell \in IndentCells
    /\ indent_idx \in {0, 1}
    /\ cell_indent_px = 0
    /\ indent_text = <<>>

\* the body of the loop over the cells, for one cell
ResolveCell ==
    /\ ipc = "input"
    /\ cell_indent_px' = (IF StyleOf(indent_cell).nonempty
                     THEN IndentPx(StyleOf(indent_cell)) ELSE 0)
    /\ indent_text' = ResolveText(indent_idx, indent_cell)
    /\ ipc' = "done"
    /\ UNCHANGED <<indent_cell, indent_idx>>

(***************************************************************************)
(* _fetch_extracted_output of one text: one fetch_line per sentence line,  *)
(* gathered, then the zip of the results with the lines.                   *)
(***************************************************************************)
LineTexts == {<<"a">>, <<"b">>}

\* the answers of the extraction prompt: none, one, two index-aligned
\* triples, and lists of unequal length
LineOutputs ==
    {[titles |-> <<>>, values |-> <<>>, units |-> <<>>],
     [titles |-> <<<<"R">>>>, values |-> <<<<"1">>>>, units |-> <<<<"$">>>>],
     [titles |-> <<<<"R">>, <<"S">>>>, values |-> <<<<"1">>, <<"2">>>>,
      units |-> <<<<"$">>, <<"%">>>>],
     [titles |-> <<<<"S">>, <<"R">>>>, values |-> <<<<"2">>>>,
      units |-> <<<<"%">>, <<"$">>>>]}

ExtractIdle ==
    /\ xpc = "idle"
    /\ sentence_lines = <<>>
    /\ line_results = <<>>
    /\ descriptors = <<>>

\* lines = get_sentences(text); every fetch_line is in flight
ExtractInit ==
    /\ xpc = "fetch"
    /\ sentence_lines \in SeqsUpTo(LineTexts, MaxLines)
    /\ line_results = [i \in 1..Len(sentence_lines) |-> Pending]
    /\ descriptors = <<>>

\* one fetch_line returns: the parsed answer, or the fallback after an error
LineReturns ==
    /\ xpc = "fetch"
    /\ \E i \in 1..Len(line_results), response \in Responses(LineOutputs) :
           /\ line_results[i] = Pending
           /\ line_results' = [line_results EXCEPT ![i] = fetch_line(response)]
    /\ UNCHANGED <<xpc, sentence_lines, descriptors>>

\* gather has every result, in the order of the lines; the zip loop builds
\* final_result, or result['titles'] raises KeyError on a fallback result
ZipLines ==
    /\ xpc = "fetch"
    /\ \A i \in 1..Len(line_results) : line_results[i] # Pending
    /\ IF KeyErrorTitles(line_results)
       THEN xpc' = "KeyError" /\ UNCHANGED descriptors
       ELSE /\ xpc' = "done"
            /\ descriptors' = _fetch_extracted_output(sentence_lines, line_results)
    /\ UNCHANGED <<sentence_lines, line_results>>

(***************************************************************************)
(* extract_table_with_preceding_text: the text elements and the tables of  *)
(* a document in document order, and the value the function returns.       *)
(***************************************************************************)
MaxElements == 3

\* parse_html_table_to_markdown(raw_html) as a function of the table
parse_html_table_to_markdown(raw) ==
    LET grid == IF raw.table THEN BuildWriter(raw.rows) ELSE <<>>
        kept == FilterLoop(MarkdownLoop(grid, 1), 1)
    IN  join(<<NL>>, RemoveColumns(kept, EmptyColIndices(kept)))

TextElement(text) == [name |-> "p", text |-> text]
TableElement(rows) == [name |-> "table", raw |-> [table |-> TRUE, rows |-> rows]]

Elements ==
    {TextElement(t) : t \in {<<>>, <<SP>>, <<"a">>, <<"b", SP>>}}
        \cup {TableElement(<<<<Cell(<<"x">>, NoStyle, 1)>>>>),
              TableElement(<<<<Cell(<<"x">>, NoStyle, 1), Cell(<<"x", SP, "y">>, NoStyle, 1)>>>>)}

Documents == SeqsUpTo(Elements, MaxElements)

\* soup.find_all('table')
Tables(elements) == SelectSeq(elements, LAMBDA e : e.name = "table")

\* the chunk built when the loop meets a table
Chunk(current_text_elements, element) ==
    LET preceding_text ==
            Flatten([i \in 1..Len(current_text_elements) |->
                        strip(current_text_elements[i].text) \o <<NL>>])
        table_html == parse_html_table_to_markdown(element.raw)
    IN  [content |-> IF strip(preceding_text) # <<>>
                     THEN strip(preceding_text) \o <<NL, NL>> \o table_html
                     ELSE table_html,
         table_only |-> table_html,
         preceding_text |-> strip(preceding_text)]

\* the loop over all_elements: it returns at the first table it meets
RECURSIVE ElementLoop(_, _, _)
ElementLoop(all_elements, i, current_text_elements) ==
    IF i > Len(all_elements) THEN [type |-> "None"]
    ELSE IF all_elements[i].name = "table"
    THEN [type |-> "dict", value |-> Chunk(current_text_elements, all_elements[i])]
    ELSE IF strip(all_elements[i].text) # <<>>
    THEN ElementLoop(all_elements, i + 1, Append(current_text_elements, all_elements[i]))
    ELSE ElementLoop(all_elements, i + 1, <<>>)

NotCalled == [type |-> "not called"]

ChunkIdle ==
    /\ epc = "idle"
    /\ document = <<>>
    /\ chunk_result = NotCalled

ChunkInit ==
    /\ epc = "input"
    /\ document \in Documents
    /\ chunk_result = NotCalled

\* if not tables: raise ValueError
ExtractRaises ==
    /\ epc = "input"
    /\ Tables(document) = <<>>
    /\ epc' = "ValueError"
    /\ UNCHANGED <<document, chunk_result>>

ExtractReturns ==
    /\ epc = "input"
    /\ Tables(document) # <<>>
    /\ epc' = "done"
    /\ chunk_result' = ElementLoop(document, 1, <<>>)
    /\ UNCHANGED document

(***************************************************************************)
(* The Stage-B call of one text descriptor and the merge of its result     *)
(* into the descriptor: {**extracted_data, **auditing_info}.               *)
(***************************************************************************)
\* extracted_data_for_merge: {"_id": original_index, **extracted_result}
StageARecords ==
    {[_id |-> i, title |-> t, value |-> v, unit |-> u, reference |-> r] :
        i \in 0..1, t \in {<<"R">>, NoneStr}, v \in {<<"1">>, <<"2">>},
        u \in {<<"$">>, <<"%">>}, r \in {Sentence(1), Sentence(2)}}

\* ClassificationOutput of src/src/formats.py
ClassificationOutputs ==
    {[type_ |-> <<"a">>, period |-> <<"Q">>, unit |-> <<"%">>,
      category |-> <<"c">>, title |-> <<"R">>]}

\* _fetch_classification_output of src/src/fetch.py
src_fetch_classification_output(response) ==
    IF response.status = "raised"
    THEN [title |-> NoneStr, type_ |-> NoneStr, period |-> NoneStr,
          unit |-> NoneStr, category |-> NoneStr]
    ELSE response.parsed

NoRecord == [_id |-> -1]

StageBIdle ==
    /\ bpc = "idle"
    /\ stage_a_record = NoRecord
    /\ stage_b = "none"
    /\ stage_b_response = Pending
    /\ merged_record = NoRecord

\* the call for the descriptor is in flight
StageBInit ==
    /\ bpc = "dispatched"
    /\ stage_a_record \in StageARecords
    /\ stage_b \in {"auditing", "classification"}
    /\ stage_b_response = Pending
    /\ merged_record = NoRecord

\* _fetch_auditing_output of src/fetch.py answers and its result is merged
AuditingMerged ==
    /\ bpc = "dispatched"
    /\ stage_b = "auditing"
    /\ \E response \in Responses(AuditingOutputs) :
           /\ stage_b_response' = response
           /\ merged_record' = Merge(stage_a_record, _fetch_auditing_output(response))
    /\ bpc' = "merged"
    /\ UNCHANGED <<stage_a_record, stage_b>>

\* _fetch_classification_output of src/src/fetch.py answers and its result
\* is merged
ClassificationMerged ==
    /\ bpc = "dispatched"
    /\ stage_b = "classification"
    /\ \E response \in Responses(ClassificationOutputs) :
           /\ stage_b_response' = response
           /\ merged_record' =
                  Merge(stage_a_record, src_fetch_classification_output(response))
    /\ bpc' = "merged"
    /\ UNCHANGED <<stage_a_record, stage_b>>

(***************************************************************************)
(* async_limit(max_concurrent): the wrapper runs the body of the coroutine *)
(* function inside 'async with semaphore'.  asyncio.Semaphore keeps a      *)
(* counter and a queue of waiters; a waiter that was woken stays in the    *)
(* queue until its task runs again.                                        *)
(***************************************************************************)
MaxInvocations == 3
MaxConcurrent == 2

Invocations == 1..MaxInvocations

\* Semaphore.locked(), which lets every caller through
locked_never(_value, _waiters) == FALSE

\* Semaphore.locked(): no slot is free, or somebody is queued already
locked(_value, _waiters) == _value = 0 \/ _waiters # <<>>

\* Semaphore._wake_up_next() repeated while the counter is positive: the
\* first waiter not woken yet takes the slot
RECURSIVE WakeLoop(_, _, _)
WakeLoop(_value, _waiters, pcs) ==
    LET sleeping == SelectSeq(_waiters, LAMBDA j : pcs[j] = "waiting")
    IN  IF _value > 0 /\ sleeping # <<>>
        THEN WakeLoop(_value - 1, _waiters, [pcs EXCEPT ![Head(sleeping)] = "woken"])
        ELSE [value |-> _value, pcs |-> pcs]

\* Semaphore.release(): _value += 1, then _wake_up_next()
release(_value, _waiters, pcs) ==
    LET sleeping == SelectSeq(_waiters, LAMBDA j : pcs[j] = "waiting")
    IN  IF sleeping # <<>>
        THEN [value |-> _value, pcs |-> [pcs EXCEPT ![Head(sleeping)] = "woken"]]
        ELSE [value |-> _value + 1, pcs |-> pcs]

LimitIdle ==
    /\ lpc = [i \in Invocations |-> "idle"]
    /\ max_concurrent = 0
    /\ semaphore_value = 0
    /\ semaphore_waiters = <<>>

\* semaphore = asyncio.Semaphore(max_concurrent); no wrapper called yet
LimitInit ==
    /\ lpc = [i \in Invocations |-> "created"]
    /\ max_concurrent \in 0..MaxConcurrent
    /\ semaphore_value = max_concurrent
    /\ semaphore_waiters = <<>>

\* the wrapper is awaited: semaphore.acquire() takes a slot or queues
Acquire(i) ==
    /\ lpc[i] = "created"
    /\ IF locked(semaphore_value, semaphore_waiters)
       THEN /\ semaphore_waiters' = Append(semaphore_waiters, i)
            /\ lpc' = [lpc EXCEPT ![i] = "waiting"]
            /\ UNCHANGED semaphore_value
       ELSE /\ semaphore_value' = semaphore_value - 1
            /\ lpc' = [lpc EXCEPT ![i] = "body"]
            /\ UNCHANGED semaphore_waiters
    /\ UNCHANGED max_concurrent

\* the task of a woken waiter runs again: it leaves the queue, wakes the
\* next waiters while slots are free, and enters the body
Resume(i) ==
    /\ lpc[i] = "woken"
    /\ LET left == SelectSeq(semaphore_waiters, LAMBDA j : j # i)
           woken == WakeLoop(semaphore_value, left, [lpc EXCEPT ![i] = "body"])
       IN  /\ semaphore_waiters' = left
           /\ semaphore_value' = woken.value
           /\ lpc' = woken.pcs
    /\ UNCHANGED max_concurrent

\* func returns: 'async with' releases the semaphore
BodyReturns(i) ==
    /\ lpc[i] = "body"
    /\ LET released == release(semaphore_value, semaphore_waiters,
                               [lpc EXCEPT ![i] = "returned"])
       IN  /\ semaphore_value' = released.value
           /\ lpc' = released.pcs
    /\ UNCHANGED <<max_concurrent, semaphore_waiters>>

\* func raises: 'async with' releases the semaphore and the exception goes on
BodyRaises(i) ==
    /\ lpc[i] = "body"
    /\ LET released == release(semaphore_value, semaphore_waiters,
                               [lpc EXCEPT ![i] = "raised"])
       IN  /\ semaphore_value' = released.value
           /\ lpc' = released.pcs
    /\ UNCHANGED <<max_concurrent, semaphore_waiters>>

(***************************************************************************)
(* The specifications.                                                     *)
(***************************************************************************)
VerifierNext ==
    \/ Verify /\ UNCHANGED <<tableVars, runVars, fetcherVars, numericVars, matcherVars, indentVars, extractVars, chunkVars, stageBVars, limitVars>>
    \/ Reverify /\ UNCHANGED <<tableVars, runVars, fetcherVars, numericVars, matcherVars, indentVars, extractVars, chunkVars, stageBVars, limitVars>>

InitVerifier == VerifierInit /\ TableIdle /\ RunIdle /\ FetcherIdle /\ NumericIdle /\ MatcherIdle /\ IndentIdle /\ ExtractIdle /\ ChunkIdle /\ StageBIdle /\ LimitIdle

SpecVerifier == InitVerifier /\ [][VerifierNext]_vars

TableNext == ParseTable /\ UNCHANGED <<verifierVars, runVars, fetcherVars, numericVars, matcherVars, indentVars, extractVars, chunkVars, stageBVars, limitVars>>

InitTable == TableInit /\ VerifierIdle /\ RunIdle /\ FetcherIdle /\ NumericIdle /\ MatcherIdle /\ IndentIdle /\ ExtractIdle /\ ChunkIdle /\ StageBIdle /\ LimitIdle

SpecTable == InitTable /\ [][TableNext]_vars

Next ==
    \/ ReadJsonFails /\ UNCHANGED <<verifierVars, tableVars, fetcherVars, numericVars, matcherVars, indentVars, extractVars, chunkVars, stageBVars, limitVars>>
    \/ ReadJson /\ UNCHANGED <<verifierVars, tableVars, fetcherVars, numericVars, matcherVars, indentVars, extractVars, chunkVars, stageBVars, limitVars>>
    \/ FetchLineReturns /\ UNCHANGED <<verifierVars, tableVars, fetcherVars, numericVars, matcherVars, indentVars, extractVars, chunkVars, stageBVars, limitVars>>
    \/ GatherExtracted /\ UNCHANGED <<verifierVars, tableVars, fetcherVars, numericVars, matcherVars, indentVars, extractVars, chunkVars, stageBVars, limitVars>>
    \/ ReadHtmlFails /\ UNCHANGED <<verifierVars, tableVars, fetcherVars, numericVars, matcherVars, indentVars, extractVars, chunkVars, stageBVars, limitVars>>
    \/ ReadHtml /\ UNCHANGED <<verifierVars, tableVars, fetcherVars, numericVars, matcherVars, indentVars, extractVars, chunkVars, stageBVars, limitVars>>
    \/ RowwiseReturns /\ UNCHANGED <<verifierVars, tableVars, fetcherVars, numericVars, matcherVars, indentVars, extractVars, chunkVars, stageBVars, limitVars>>
    \/ GatherRows /\ UNCHANGED <<verifierVars, tableVars, fetcherVars, numericVars, matcherVars, indentVars, extractVars, chunkVars, stageBVars, limitVars>>
    \/ CellwiseReturns /\ UNCHANGED <<verifierVars, tableVars, fetcherVars, numericVars, matcherVars, indentVars, extractVars, chunkVars, stageBVars, limitVars>>
    \/ GatherCells /\ UNCHANGED <<verifierVars, tableVars, fetcherVars, numericVars, matcherVars, indentVars, extractVars, chunkVars, stageBVars, limitVars>>
    \/ AuditingReturns /\ UNCHANGED <<verifierVars, tableVars, fetcherVars, numericVars, matcherVars, indentVars, extractVars, chunkVars, stageBVars, limitVars>>
    \/ GatherAuditing /\ UNCHANGED <<verifierVars, tableVars, fetcherVars, numericVars, matcherVars, indentVars, extractVars, chunkVars, stageBVars, limitVars>>
    \/ ClassificationReturns /\ UNCHANGED <<verifierVars, tableVars, fetcherVars, numericVars, matcherVars, indentVars, extractVars, chunkVars, stageBVars, limitVars>>
    \/ GatherClassification /\ UNCHANGED <<verifierVars, tableVars, fetcherVars, numericVars, matcherVars, indentVars, extractVars, chunkVars, stageBVars, limitVars>>

Init == RunInit /\ VerifierIdle /\ TableIdle /\ FetcherIdle /\ NumericIdle /\ MatcherIdle /\ IndentIdle /\ ExtractIdle /\ ChunkIdle /\ StageBIdle /\ LimitIdle

Spec == Init /\ [][Next]_vars

FetcherNext ==
    \/ CallFetcher /\ UNCHANGED <<verifierVars, tableVars, runVars, numericVars, matcherVars, indentVars, extractVars, chunkVars, stageBVars, limitVars>>
    \/ AttemptReturns /\ UNCHANGED <<verifierVars, tableVars, runVars, numericVars, matcherVars, indentVars, extractVars, chunkVars, stageBVars, limitVars>>
    \/ AttemptRaises /\ UNCHANGED <<verifierVars, tableVars, runVars, numericVars, matcherVars, indentVars, extractVars, chunkVars, stageBVars, limitVars>>

InitFetcher == FetcherInit /\ VerifierIdle /\ TableIdle /\ RunIdle /\ NumericIdle /\ MatcherIdle /\ IndentIdle /\ ExtractIdle /\ ChunkIdle /\ StageBIdle /\ LimitIdle

SpecFetcher == InitFetcher /\ [][FetcherNext]_vars

NumericNext ==
    IsNumericValue /\ UNCHANGED <<verifierVars, tableVars, runVars, fetcherVars, matcherVars, indentVars, extractVars, chunkVars, stageBVars, limitVars>>

InitNumeric == NumericInit /\ VerifierIdle /\ TableIdle /\ RunIdle /\ FetcherIdle /\ MatcherIdle /\ IndentIdle /\ ExtractIdle /\ ChunkIdle /\ StageBIdle /\ LimitIdle

SpecNumeric == InitNumeric /\ [][NumericNext]_vars

LimitNext ==
    \/ (\E i \in Invocations : Acquire(i)) /\ UNCHANGED <<verifierVars, tableVars, runVars, fetcherVars, numericVars, matcherVars, indentVars, extractVars, chunkVars, stageBVars>>
    \/ (\E i \in Invocations : Resume(i)) /\ UNCHANGED <<verifierVars, tableVars, runVars, fetcherVars, numericVars, matcherVars, indentVars, extractVars, chunkVars, stageBVars>>
    \/ (\E i \in Invocations : BodyReturns(i)) /\ UNCHANGED <<verifierVars, tableVars, runVars, fetcherVars, numericVars, matcherVars, indentVars, extractVars, chunkVars, stageBVars>>
    \/ (\E i \in Invocations : BodyRaises(i)) /\ UNCHANGED <<verifierVars, tableVars, runVars, fetcherVars, numericVars, matcherVars, indentVars, extractVars, chunkVars, stageBVars>>

InitLimit == LimitInit /\ VerifierIdle /\ TableIdle /\ RunIdle /\ FetcherIdle /\ NumericIdle /\ MatcherIdle /\ IndentIdle /\ ExtractIdle /\ ChunkIdle /\ StageBIdle

\* the event loop runs every task that is ready, and the body of the
\* coroutine function ends
LimitFairness ==
    \A i \in Invocations :
        /\ WF_limitVars(Resume(i))
        /\ WF_limitVars(BodyReturns(i) \/ BodyRaises(i))

SpecLimit == InitLimit /\ [][LimitNext]_vars /\ LimitFairness

StageBNext ==
    \/ AuditingMerged /\ UNCHANGED <<verifierVars, tableVars, runVars, fetcherVars, numericVars, matcherVars, indentVars, extractVars, chunkVars, limitVars>>
    \/ ClassificationMerged /\ UNCHANGED <<verifierVars, tableVars, runVars, fetcherVars, numericVars, matcherVars, indentVars, extractVars, chunkVars, limitVars>>

InitStageB == StageBInit /\ VerifierIdle /\ TableIdle /\ RunIdle /\ FetcherIdle /\ NumericIdle /\ MatcherIdle /\ IndentIdle /\ ExtractIdle /\ ChunkIdle /\ LimitIdle

SpecStageB == InitStageB /\ [][StageBNext]_vars

ChunkNext ==
    \/ ExtractRaises /\ UNCHANGED <<verifierVars, tableVars, runVars, fetcherVars, numericVars, matcherVars, indentVars, extractVars, stageBVars, limitVars>>
    \/ ExtractReturns /\ UNCHANGED <<verifierVars, tableVars, runVars, fetcherVars, numericVars, matcherVars, indentVars, extractVars, stageBVars, limitVars>>

InitChunk == ChunkInit /\ VerifierIdle /\ TableIdle /\ RunIdle /\ FetcherIdle /\ NumericIdle /\ MatcherIdle /\ IndentIdle /\ ExtractIdle /\ StageBIdle /\ LimitIdle

SpecChunk == InitChunk /\ [][ChunkNext]_vars

ExtractNext ==
    \/ LineReturns /\ UNCHANGED <<verifierVars, tableVars, runVars, fetcherVars, numericVars, matcherVars, indentVars, chunkVars, stageBVars, limitVars>>
    \/ ZipLines /\ UNCHANGED <<verifierVars, tableVars, runVars, fetcherVars, numericVars, matcherVars, indentVars, chunkVars, stageBVars, limitVars>>

InitExtract == ExtractInit /\ VerifierIdle /\ TableIdle /\ RunIdle /\ FetcherIdle /\ NumericIdle /\ MatcherIdle /\ IndentIdle /\ ChunkIdle /\ StageBIdle /\ LimitIdle

SpecExtract == InitExtract /\ [][ExtractNext]_vars

IndentNext == ResolveCell /\ UNCHANGED <<verifierVars, tableVars, runVars, fetcherVars, numericVars, matcherVars, extractVars, chunkVars, stageBVars, limitVars>>

InitIndent == IndentInit /\ VerifierIdle /\ TableIdle /\ RunIdle /\ FetcherIdle /\ NumericIdle /\ MatcherIdle /\ ExtractIdle /\ ChunkIdle /\ StageBIdle /\ LimitIdle

SpecIndent == InitIndent /\ [][IndentNext]_vars

MatcherNext ==
    MatchSegment /\ UNCHANGED <<verifierVars, tableVars, runVars, fetcherVars, numericVars, indentVars, extractVars, chunkVars, stageBVars, limitVars>>

InitMatcher == MatcherInit /\ VerifierIdle /\ TableIdle /\ RunIdle /\ FetcherIdle /\ NumericIdle /\ IndentIdle /\ ExtractIdle /\ ChunkIdle /\ StageBIdle /\ LimitIdle

SpecMatcher == InitMatcher /\ [][MatcherNext]_vars

(***************************************************************************)
(* C6: check_valid_value returns exactly the longest prefix of the         *)
(* candidate that occurs as a contiguous substring of the source, and the  *)
(* empty string when the candidate or the source is empty.                 *)
(***************************************************************************)
PrefixLengthsIn(content, val) ==
    {k \in 0..Len(val) : Contains(content, SubSeq(val, 1, k))}

C6_LongestPrefix ==
    vpc # "input" =>
        /\ Len(longest_match) \in PrefixLengthsIn(html_content, value)
        /\ longest_match = SubSeq(value, 1, Len(longest_match))
        /\ \A k \in PrefixLengthsIn(html_content, value) : k <= Len(longest_match)
        /\ (value = <<>> \/ html_content = <<>>) => longest_match = <<>>

\* a proper, non-empty prefix was returned: the walk stopped at a mismatch
C6_Witness ==
    /\ vpc = "verified"
    /\ longest_match # <<>>
    /\ Len(longest_match) < Len(value)

(***************************************************************************)
(* C7: check_valid_value is idempotent in its candidate: verifying the     *)
(* already verified prefix against the same source returns that prefix.    *)
(***************************************************************************)
C7_Idempotent ==
    vpc = "reverified" => rematch = longest_match

C7_Witness ==
    /\ vpc = "reverified"
    /\ rematch # <<>>
    /\ Len(rematch) < Len(value)

(***************************************************************************)
(* Helpers of the table claims: a grid row comes from one source row, in   *)
(* document order.                                                         *)
(***************************************************************************)
IncMaps(m, n) ==
    {f \in [1..m -> 1..n] : \A i, j \in 1..m : i < j => f[i] < f[j]}

RECURSIVE SumColspan(_)
SumColspan(row) ==
    IF row = <<>> THEN 0 ELSE Head(row).colspan + SumColspan(Tail(row))

\* the number of grid columns before the j-th cell of a source row
Offset(row, j) == SumColspan(SubSeq(row, 1, j - 1))

\* no cell text holds the column delimiter or the separator dashes
PipeFree ==
    \A r \in 1..Len(raw_html.rows) :
        \A c \in 1..Len(raw_html.rows[r]) :
            /\ ~Contains(raw_html.rows[r][c].text, <<PIPE>>)
            /\ ~Contains(raw_html.rows[r][c].text, <<DASH, DASH, DASH>>)

MaxWidth == CHOOSE w \in {Len(writer[i]) : i \in 1..Len(writer)} :
                \A i \in 1..Len(writer) : Len(writer[i]) <= w

(***************************************************************************)
(* C3 as stated: all rows retained in the grid have the same number of     *)
(* columns, the maximum expanded row length (checked on tables whose cell  *)
(* texts hold no '|').                                                     *)
(***************************************************************************)
C3_Rectangular ==
    (tpc = "done" /\ writer # <<>> /\ PipeFree) =>
        \A i \in 1..Len(writer) : Len(writer[i]) = MaxWidth

(***************************************************************************)
(* C3 amended: every row retained in the grid has as many columns as the   *)
(* sum of the colspans of its own source row; rows are not padded to a     *)
(* common width.                                                           *)
(***************************************************************************)
C3_RowWidthIsOwnSpanSum ==
    tpc = "done" =>
        \E f \in IncMaps(Len(writer), Len(raw_html.rows)) :
            \A i \in 1..Len(writer) :
                Len(writer[i]) = SumColspan(raw_html.rows[f[i]])

\* a grid with two rows of different widths, one of them widened by a colspan
C3_Witness ==
    /\ tpc = "done"
    /\ \E i, j \in 1..Len(writer) : Len(writer[i]) < Len(writer[j])
    /\ \E r \in 1..Len(raw_html.rows) :
           \E c \in 1..Len(raw_html.rows[r]) : raw_html.rows[r][c].colspan > 1

(***************************************************************************)
(* C4 as stated: in the rendered text no column is empty in every data row *)
(* below the header separator, whatever its header cell holds (checked on  *)
(* rectangular grids whose cell texts hold no '|').                        *)
(***************************************************************************)
DataRows == 3..Len(filtered_rows)

BlankAt(row, c) == c > Len(RawCells(row)) \/ strip(RawCells(row)[c]) = <<>>

C4_NoEmptyDataColumn ==
    (/\ tpc = "done"
     /\ Len(filtered_rows) >= 3
     /\ PipeFree
     /\ \A i \in 1..Len(writer) : Len(writer[i]) = MaxWidth) =>
        \A c \in 1..Len(RawCells(filtered_rows[2])) :
            (\E i \in DataRows : c <= Len(RawCells(filtered_rows[i])))
                => \E i \in DataRows : ~BlankAt(filtered_rows[i], c)

(***************************************************************************)
(* C4 amended: for cell texts without '|' and without "---", no column     *)
(* within the width of the header row is blank in every row other than the *)
(* separator, the header row included; a column that holds only a header   *)
(* cell is kept.                                                           *)
(***************************************************************************)
C4_NoColumnBlankInEveryRow ==
    (tpc = "done" /\ filtered_rows # <<>> /\ PipeFree) =>
        \A c \in 1..Len(RawCells(filtered_rows[2])) :
            \E i \in 1..Len(filtered_rows) :
                i # 2 /\ ~BlankAt(filtered_rows[i], c)

\* a column was pruned, and a kept column is blank in the one data row
C4_Witness ==
    /\ tpc = "done"
    /\ PipeFree
    /\ empty_col_indices # {}
    /\ Len(filtered_rows) = 3
    /\ \E c \in 1..Len(RawCells(filtered_rows[2])) : BlankAt(filtered_rows[3], c)

(***************************************************************************)
(* C5 as stated: a cell with colspan n gives n consecutive equal columns   *)
(* of its grid row, and in the formatted row the first of them shows the   *)
(* text and the 2nd to n-th are the single-space placeholder, whatever the *)
(* neighbouring cells hold (checked on tables whose cell texts hold no     *)
(* '|').                                                                   *)
(***************************************************************************)
Shown(text) == IF text = <<>> THEN <<SP>> ELSE text

SpanColumnsEqual(line, row) ==
    \A j \in 1..Len(row) :
        \A k \in 1..row[j].colspan :
            line[Offset(row, j) + k] = line[Offset(row, j) + 1]

C5_FirstShownRestCollapsed ==
    (tpc = "done" /\ PipeFree) =>
        \E f \in IncMaps(Len(writer), Len(raw_html.rows)) :
            \A i \in 1..Len(writer) :
                LET row == raw_html.rows[f[i]]
                IN  /\ Len(writer[i]) = SumColspan(row)
                    /\ SpanColumnsEqual(writer[i], row)
                    /\ \A j \in 1..Len(row) :
                           row[j].colspan >= 1 =>
                               /\ formatted[i][Offset(row, j) + 1]
                                      = Shown(writer[i][Offset(row, j) + 1])
                               /\ \A k \in 2..row[j].colspan :
                                      formatted[i][Offset(row, j) + k] = <<SP>>

(***************************************************************************)
(* C8 as stated: a source row in which every cell, trimmed, is empty, a    *)
(* BOM or a replacement character is not in the grid: every grid row       *)
(* comes from a source row that holds some other text.                     *)
(***************************************************************************)
RawBlank(row) == \A c \in 1..Len(row) : strip(row[c].text) \in Blank

C8_BlankRowsDropped ==
    tpc = "done" =>
        \E f \in IncMaps(Len(writer), Len(raw_html.rows)) :
            \A i \in 1..Len(writer) :
                /\ ~RawBlank(raw_html.rows[f[i]])
                /\ Len(writer[i]) = SumColspan(raw_html.rows[f[i]])

\* the rendered rows with their positions in markdown_table
Rendered == [i \in 1..Len(markdown_table) |-> [i |-> i, row |-> markdown_table[i]]]

\* some cell of the row holds text other than the placeholder, a BOM or a
\* replacement character
HasRealText(row) ==
    \E j \in 1..Len(StrippedCells(row)) : StrippedCells(row)[j] \notin Blank

\* the rows the filter has to retain: the header row, the separator, every
\* row with a non-empty first cell and every row with real text
MustRetain(r) ==
    \/ r.i = 1
    \/ IsSeparatorRow(StrippedCells(r.row))
    \/ StrippedCells(r.row)[1] # <<>>
    \/ HasRealText(r.row)

\* C22 (as stated): a rendered row other than the header row is dropped
\* only when its first cell is empty and no cell holds real text; every row
\* with real text in some cell, single-word or multi-word, and the header
\* separator are retained, in their order (checked on tables whose cell
\* texts hold no '|' and no "---").
C22_RowsWithTextRetained ==
    (tpc = "done" /\ PipeFree) =>
        LET required == SelectSeq(Rendered, MustRetain)
        IN  \E f \in IncMaps(Len(required), Len(kept_rows)) :
                \A k \in 1..Len(required) : kept_rows[f[k]] = required[k].row

\* no cell text holds the column delimiter
NoPipe ==
    \A r \in 1..Len(raw_html.rows) :
        \A c \in 1..Len(raw_html.rows[r]) :
            ~Contains(raw_html.rows[r][c].text, <<PIPE>>)

\* the retained rows after the header row and its separator
RetainedDataRows == 3..Len(kept_rows)

\* C23 (as stated): column pruning never removes a column that holds a
\* non-empty cell in some retained data row, whatever the other cells of
\* that row contain, and the one index set is removed from every retained
\* row, the header separator included (checked on tables whose cell texts
\* hold no '|').
C23_NoDataColumnPruned ==
    (tpc = "done" /\ NoPipe) =>
        /\ \A col_idx \in empty_col_indices :
               \A i \in RetainedDataRows : BlankAt(kept_rows[i], col_idx + 1)
        /\ Len(filtered_rows) = Len(kept_rows)
        /\ empty_col_indices # {} =>
               \A i \in 1..Len(kept_rows) :
                   LET left == DropCols(StrippedCells(kept_rows[i]), 1,
                                        empty_col_indices)
                   IN  left # <<>> => StrippedCells(filtered_rows[i]) = left

(***************************************************************************)
(* Claims about the extraction run (Spec).                                 *)
(***************************************************************************)

\* C1 (as stated): when the service call of one sentence line fails, the
\* failure is replaced by an empty result, _fetch_extracted_output returns
\* normally and the run is not aborted: no run is in its raised state while
\* a line of one of its text tasks holds the fallback of a failed call.
C1_FailedLineIsAbsorbed ==
    (\E k \in 1..Len(text_tasks) : \E l \in 1..Len(text_tasks[k].results) :
        text_tasks[k].results[l] = fetch_line(Raise))
        => rpc # "raised"

\* the cells of a parsed answer that pass the value filter of Stage B
KeptCells(cells) ==
    {i \in 1..Len(cells) :
        strip(cells[i].value) # <<>> /\ strip(lower(cells[i].value)) # none}

\* C2 (as stated): in the Stage-B result of one descriptor, the cells that
\* share a (value, period) yield exactly one record: an answered cell task
\* returns as many records as its kept cells have distinct (value, period).
C2_OneRecordPerValuePeriod ==
    \A j \in 1..Len(cell_tasks) :
        cell_tasks[j].response.status = "parsed" =>
            LET cells == cell_tasks[j].response.parsed.data
            IN  Len(_fetch_table_data_cellwise(cell_tasks[j].metric_data,
                                               cell_tasks[j].response))
                    = Cardinality({<<cells[i].value, cells[i].period>> :
                                      i \in KeptCells(cells)})

\* C9 (as stated): a table whose rendering is the empty string causes no
\* Stage-A call and no Stage-B call, and no descriptor or record carries its
\* index: every row task, cell task, stored metric and table record belongs
\* to a table with a non-empty rendering.
C9_EmptyTableSkipped ==
    /\ \A i \in 1..Len(row_tasks) : row_tasks[i].table_data.reference # <<>>
    /\ \A j \in 1..Len(cell_tasks) : cell_tasks[j].metric_data.reference # <<>>
    /\ \A i \in 1..Len(metrics_by_table_index) :
           \A m \in 1..Len(metrics_by_table_index[i]) :
               metrics_by_table_index[i][m].reference # <<>>
    /\ \A r \in 1..Len(table_data) : table_data[r].reference # <<>>

\* C10 (as stated): when the source document cannot be read, process_data
\* ends with a run-level error before any extraction-service call has been
\* dispatched.
C10_UnreadableSourceBeforeDispatch ==
    (rpc = "raised" /\ error \in {"json", "html"}) => calls = <<>>

\* the calls of the log that belong to the given stages
CallsOf(stages) == {n \in 1..Len(calls) : calls[n].stage \in stages}

StageA == {"extract", "rowwise"}
StageB == {"cellwise", "auditing", "classification"}

\* a call of the text Stage A, resp. of any task list, is still in flight
LinePending ==
    \E k \in 1..Len(text_tasks) : ~LinesDone(text_tasks[k])
SomePending(tasks) ==
    \E k \in 1..Len(tasks) : tasks[k].response.status = "pending"
StageBPending ==
    SomePending(cell_tasks) \/ SomePending(auditing_tasks)
        \/ SomePending(classification_tasks)

\* no Stage-B call is logged before a Stage-A call, and no Stage-B call is
\* in the log while a Stage-A call of a run that goes on is unanswered
StageABeforeStageB ==
    /\ \A a \in CallsOf(StageA) : \A b \in CallsOf(StageB) : a < b
    /\ CallsOf(StageB) # {} =>
           /\ row_tasks = <<>>
           /\ rpc # "raised" => text_tasks = <<>>

\* C11 (as stated): the run passes once through chunking, Stage-A dispatch,
\* Stage-A collect, Stage-B dispatch, Stage-B collect, merge: Stage B follows
\* the collection of Stage A, no Stage-A call is in flight after Stage-A
\* results were collected, and no Stage-B call (cell, auditing or
\* classification) is in flight after records were merged and written.
C11_PhasesOnlyForward ==
    /\ StageABeforeStageB
    /\ all_extracted_results # <<>> => ~SomePending(row_tasks)
    /\ auditing_file # <<>> => ~StageBPending

\* C11 (amended): the stages follow one another as text Stage A, table
\* Stage A, cells, auditing, classification; a stage is dispatched only
\* when every call of the stages before it has been collected; the auditing
\* records are written when the cell and auditing calls are collected, and
\* the classification file only when the run is done.
StageRank(stage) ==
    CASE stage = "extract" -> 1
      [] stage = "rowwise" -> 2
      [] stage = "cellwise" -> 3
      [] stage = "auditing" -> 4
      [] stage = "classification" -> 5

C11_StagesInOrder ==
    /\ StageABeforeStageB
    /\ \A a, b \in 1..Len(calls) :
           a < b => StageRank(calls[a].stage) <= StageRank(calls[b].stage)
    /\ CallsOf({"rowwise"}) # {} => text_tasks = <<>>
    /\ CallsOf({"auditing"}) # {} => cell_tasks = <<>>
    /\ CallsOf({"classification"}) # {} => auditing_tasks = <<>>
    /\ auditing_file # <<>> =>
           /\ cell_tasks = <<>> /\ auditing_tasks = <<>>
           /\ rpc \in {"classification", "done"}
    /\ classification_file # <<>> =>
           /\ classification_tasks = <<>>
           /\ rpc = "done"

\* a finished run that went through every stage and wrote both files
C11_Witness ==
    /\ rpc = "done"
    /\ \A stage \in StageA \cup StageB : CallsOf({stage}) # {}
    /\ auditing_file # <<>>
    /\ Len(classification_file) > Len(auditing_file)

\* C12: for every completion order of the calls of one gather, the i-th
\* collected result is the result of the i-th dispatched call: the text
\* results, the metrics by table, the table records and the merged auditing
\* results are those of the tasks taken in dispatch order.
C12_ResultsInDispatchOrder ==
    [][/\ (rpc = "extract" /\ rpc' = "read_html") =>
              all_extracted_results' =
                  [k \in 1..Len(text_tasks) |->
                      _fetch_extracted_output(text_tasks[k].lines,
                                              text_tasks[k].results)]
       /\ (rpc = "rowwise" /\ rpc' = "cellwise") =>
              metrics_by_table_index' =
                  [i \in 1..Len(row_tasks) |->
                      _fetch_table_data_rowwise(row_tasks[i].table_data,
                                                row_tasks[i].response)]
       /\ (rpc = "cellwise" /\ rpc' = "auditing") =>
              table_data' = Flatten(
                  [j \in 1..Len(cell_tasks) |->
                      _fetch_table_data_cellwise(cell_tasks[j].metric_data,
                                                 cell_tasks[j].response)])
       /\ (rpc = "auditing" /\ rpc' = "classification") =>
              final_results' =
                  [k \in 1..Len(auditing_tasks) |->
                      Merge(extracted_data_for_merge[k],
                            _fetch_auditing_output(auditing_tasks[k].response))]
      ]_vars

\* two row calls with different results have been collected, and so have
\* two auditing calls with different results
C12_Witness ==
    /\ rpc = "classification"
    /\ Len(metrics_by_table_index) = 2
    /\ metrics_by_table_index[1] = <<>>
    /\ metrics_by_table_index[2] # <<>>
    /\ Len(final_results) >= 2
    /\ final_results[1].type_ # final_results[2].type_

\* the response is a failure of the call: it raised or could not be parsed
Failed(response) == response.status \in {"raised", "unparsed"}

\* C13: a table Stage-A or Stage-B call that raises or comes back unparsed
\* makes its function return the empty list, the run goes on, and the
\* result of every other table and descriptor is the one its own answer
\* gives.
C13_TableFailureGivesEmptyList ==
    [][/\ rpc = "rowwise" =>
              /\ rpc' \in {"rowwise", "cellwise"}
              /\ rpc' = "cellwise" =>
                     \A i \in 1..Len(row_tasks) :
                         metrics_by_table_index'[i] =
                             IF Failed(row_tasks[i].response) THEN <<>>
                             ELSE RowwiseLoop(row_tasks[i].table_data,
                                              row_tasks[i].response.parsed.data,
                                              1, <<>>)
       /\ rpc = "cellwise" =>
              /\ rpc' \in {"cellwise", "auditing"}
              /\ rpc' = "auditing" =>
                     table_data' = Flatten(
                         [j \in 1..Len(cell_tasks) |->
                             IF Failed(cell_tasks[j].response) THEN <<>>
                             ELSE CellwiseLoop(cell_tasks[j].metric_data,
                                               cell_tasks[j].response.parsed.data,
                                               1, <<>>)])
      ]_vars

\* of two answered cell calls the first came back unparsed and the second
\* raised nothing and gives a record
C13_Witness ==
    /\ rpc = "cellwise"
    /\ Len(cell_tasks) = 2
    /\ cell_tasks[1].response = Unparsed
    /\ cell_tasks[2].response.status = "parsed"
    /\ _fetch_table_data_cellwise(cell_tasks[1].metric_data,
                                  cell_tasks[1].response) = <<>>
    /\ _fetch_table_data_cellwise(cell_tasks[2].metric_data,
                                  cell_tasks[2].response) # <<>>

\* the descriptors of the answered Stage-A table calls whose title passes
\* the test, in the order of the tables and of the answers, each with the
\* position of its table call
KeptDescriptors ==
    Flatten([i \in 1..Len(row_tasks) |->
        IF row_tasks[i].response.status = "parsed"
        THEN LET kept == SelectSeq(row_tasks[i].response.parsed.data, KeepMetric)
             IN  [m \in 1..Len(kept) |-> [task |-> i, metric |-> kept[m]]]
        ELSE <<>>])

\* C17: when the Stage-A table results are collected, the Stage-B calls
\* dispatched are in one-to-one correspondence with the kept descriptors:
\* the k-th call is for the k-th kept descriptor, of the same table, and no
\* other Stage-B call is issued.
C17_OneCallPerKeptDescriptor ==
    [][(rpc = "rowwise" /\ rpc' = "cellwise") =>
        /\ Len(cell_tasks') = Len(KeptDescriptors)
        /\ \A k \in 1..Len(KeptDescriptors) :
               /\ cell_tasks'[k].metric_data.title
                      = strip(KeptDescriptors[k].metric.title)
               /\ cell_tasks'[k].metric_data.index
                      = row_tasks[KeptDescriptors[k].task].table_data.index
               /\ cell_tasks'[k].response = Pending
        /\ calls' = calls \o
               [k \in 1..Len(KeptDescriptors) |->
                   [stage |-> "cellwise",
                    index |-> row_tasks[KeptDescriptors[k].task].table_data.index]]
      ]_vars

\* of two tables the first gave no kept descriptor and the second gave one:
\* one Stage-B call is in flight, for the second table
C17_Witness ==
    /\ rpc = "cellwise"
    /\ Len(metrics_by_table_index) = 2
    /\ metrics_by_table_index[1] = <<>>
    /\ Len(metrics_by_table_index[2]) = 1
    /\ Len(cell_tasks) = 1
    /\ cell_tasks[1].metric_data.index = 1
    /\ SelectSeq(calls, LAMBDA c : c.stage = "cellwise")
           = <<[stage |-> "cellwise", index |-> 1]>>

\* the word "none" in any mix of cases
IsNoneWord(s) ==
    /\ Len(s) = 4
    /\ s[1] \in {"n", "N"} /\ s[2] \in {"o", "O"}
    /\ s[3] \in {"n", "N"} /\ s[4] \in {"e", "E"}

\* trimmed, the string is non-empty and is not "none" ignoring case
Valid(s) == strip(s) # <<>> /\ ~IsNoneWord(strip(s))

ValidTitle(metric) == Valid(metric.title)
ValidValue(cell) == Valid(cell.value)

DescriptorFields == {"title", "unit", "type_", "category", "index", "reference"}
FromDescriptor(d) == [f \in DescriptorFields |-> d[f]]

\* C19: a Stage-B call is dispatched for a descriptor with the index and
\* the reference of the table whose Stage-A call returned it, and the
\* records collected from the Stage-B calls are, call by call, the value and
\* period of the call's answer with the title, unit, type_, category, index
\* and reference of the call's own descriptor.
C19_RecordCarriesItsDescriptor ==
    [][/\ (rpc = "rowwise" /\ rpc' = "cellwise") =>
            /\ Len(cell_tasks') = Len(KeptDescriptors)
            /\ \A k \in 1..Len(KeptDescriptors) :
                   LET i == KeptDescriptors[k].task
                       d == cell_tasks'[k].metric_data
                   IN  /\ d.index = i - 1
                       /\ d.index = row_tasks[i].table_data.index
                       /\ d.reference = parse_html_table_to_csv(data[i].content)
                       /\ d.reference = row_tasks[i].table_data.reference
                       /\ d.title = strip(KeptDescriptors[k].metric.title)
                       /\ d.unit = strip(KeptDescriptors[k].metric.unit)
                       /\ d.type_ = strip(KeptDescriptors[k].metric.type_)
                       /\ d.category = strip(KeptDescriptors[k].metric.category)
       /\ (rpc = "cellwise" /\ rpc' = "auditing") =>
            table_data' = Flatten(
                [j \in 1..Len(cell_tasks) |->
                    LET returned == _fetch_table_data_cellwise(
                                        cell_tasks[j].metric_data, cell_tasks[j].response)
                    IN  [r \in 1..Len(returned) |->
                            Merge(FromDescriptor(cell_tasks[j].metric_data),
                                  [value |-> returned[r].value,
                                   period |-> returned[r].period])]])
      ]_vars

\* two tables gave one descriptor each and each Stage-B call gave records:
\* the records of the first table carry index 0 and its reference, those of
\* the second index 1 and the other reference
C19_Witness ==
    /\ rpc = "auditing"
    /\ Len(data) = 2
    /\ Len(table_data) >= 2
    /\ table_data[1].index = 0
    /\ table_data[Len(table_data)].index = 1
    /\ table_data[1].reference = parse_html_table_to_csv(data[1].content)
    /\ table_data[Len(table_data)].reference = parse_html_table_to_csv(data[2].content)
    /\ table_data[1].reference # table_data[Len(table_data)].reference

\* the records of the output file that come from text segments are written
\* first, the records of the tables after them
TextRecords == 1..(Len(classification_file) - Len(table_data))
TableRecords == (Len(classification_file) - Len(table_data) + 1)..Len(classification_file)

\* C20 (as stated): the index of an output record is the position of its
\* segment in the one ordered segment collection of the run, so a record of
\* a text segment and a record of a table segment never carry the same
\* index.
C20_IndexIdentifiesSegment ==
    rpc = "done" =>
        \A a \in TextRecords : \A b \in TableRecords :
            classification_file[a].index # classification_file[b].index

\* no row of the table has a cell (and so for a table without rows)
NoCells(raw) == \A i \in 1..Len(raw.rows) : raw.rows[i] = <<>>

\* C16: markup without a table element, a table without rows and a table
\* whose rows have no cells give the empty string: no line is written to
\* writer and the function returns at its first or second "return ''".
C16_NoCellsGivesEmptyString ==
    (tpc = "done" /\ (~raw_html.table \/ NoCells(raw_html))) =>
        /\ writer = <<>>
        /\ markdown_output = <<>>

\* a table of two rows without cells has been converted
C16_Witness ==
    /\ tpc = "done"
    /\ raw_html.table
    /\ Len(raw_html.rows) = 2
    /\ NoCells(raw_html)
    /\ markdown_output = <<>>

(***************************************************************************)
(* Claims about the fetcher (SpecFetcher).                                 *)
(***************************************************************************)

\* C14 (as stated): a call of fetch_parsed_completion is attempted at most
\* MaxRetries times with the fixed wait between attempts, and when every
\* attempt fails it returns the default empty completion: the call never
\* ends with the exception.
C14_ParsedCompletionNeverRaises ==
    \A i \in 1..Len(fetches) :
        fetches[i].method = "fetch_parsed_completion" =>
            /\ fetches[i].attempt_number <= MaxRetries
            /\ fetches[i].waited = (fetches[i].attempt_number - 1) * WaitMs
            /\ fetches[i].state # "raised"
            /\ fetches[i].result # "exception"

(***************************************************************************)
(* Claims about is_numeric_value (SpecNumeric).                            *)
(***************************************************************************)

\* a lone dash, bare or wrapped in parentheses, with any number of '$' and
\* ',' around it and white space around the whole
IsLoneDash(t) ==
    LET stripped == strip(t)
        wrapped == startswith(stripped, "(") /\ endswith(stripped, ")")
                       /\ Len(stripped) >= 2
        core == IF wrapped THEN SubSeq(stripped, 2, Len(stripped) - 1)
                ELSE stripped
    IN  /\ count(core, DASH) = 1
        /\ \A i \in 1..Len(core) : core[i] \in {DASH, "$", ","}

\* an amount written with digits, '.', ',' and '$' only
IsPlainAmount(t) ==
    \A i \in 1..Len(t) : IsDigit(t[i]) \/ t[i] \in {".", ",", "$"}

\* C15: a parenthesised amount is a negative number - "(1,234.56)" is
\* numeric and is read as -1234.56, and wrapping a numeric amount of digits,
\* '.', ',' and '$' in parentheses gives the same amount with the minus
\* sign - while the empty string, a white-space-only string and a lone
\* dash (bare, in parentheses, or with '$' or ',') are not numeric.
C15_ParenthesisedIsNegative ==
    npc = "done" =>
        /\ numeric_text = ParenthesisedAmount =>
               /\ numeric
               /\ cleaned_text(numeric_text)
                      = <<"-", "1", "2", "3", "4", ".", "5", "6">>
               /\ float(cleaned_text(numeric_text)) = Finite(TRUE, 123456, -2)
        /\ \A amount \in SeqsUpTo(NumericChars, MaxNumericLen - 2) :
               /\ numeric_text = <<"(">> \o amount \o <<")">>
               /\ IsPlainAmount(amount)
               /\ is_numeric_value(amount)
               => /\ numeric
                  /\ float(cleaned_text(numeric_text))
                         = [float(cleaned_text(amount)) EXCEPT !.negative = TRUE]
        /\ strip(numeric_text) = <<>> => ~numeric
        /\ IsLoneDash(numeric_text) => ~numeric

C15_Witness ==
    /\ npc = "done"
    /\ numeric_text = ParenthesisedAmount
    /\ numeric

\* a lone dash in parentheses with a currency sign has been judged
C15_WitnessDash ==
    /\ npc = "done"
    /\ numeric_text = <<"(", "$", DASH, ")">>
    /\ ~numeric

(***************************************************************************)
(* Claims about the segment matcher (SpecMatcher).                         *)
(***************************************************************************)

\* the lower-cased tokens the candidate shares with the target
CommonTokens(candidate, goal) ==
    {w \in set(word_tokenize(lower(candidate))) :
        \E n \in 1..Len(word_tokenize(lower(goal))) :
            word_tokenize(lower(goal))[n] = w}

\* C21: every candidate is scored by the number of lower-cased tokens it
\* shares with the target; the candidate returned has the greatest score
\* and is the first with that score, and when every candidate scores zero
\* the outcome is the distinct value NoMatch.
C21_BestCandidateFirstOnTies ==
    mpc = "done" =>
        /\ Len(scores) = Len(candidates)
        /\ \A i \in 1..Len(candidates) :
               scores[i] = Cardinality(CommonTokens(candidates[i], target))
        /\ IF \A i \in 1..Len(candidates) : scores[i] = 0
           THEN best_match = NoMatch /\ NoMatch \notin 1..Len(candidates)
           ELSE /\ best_match \in 1..Len(candidates)
                /\ \A i \in 1..Len(candidates) : scores[i] <= scores[best_match]
                /\ \A i \in 1..(best_match - 1) : scores[i] < scores[best_match]

\* three candidates: the first shares nothing with the target, the second
\* and the third share two tokens each, one of them only when the case is
\* ignored; the second is returned
C21_Witness ==
    /\ mpc = "done"
    /\ Len(candidates) = 3
    /\ scores = <<0, 2, 2>>
    /\ duplicate_token_count_cased(candidates[2], target) < 2
    /\ best_match = 2

(***************************************************************************)
(* Claims about the indentation of a cell (SpecIndent).                    *)
(***************************************************************************)

\* a padding declaration of the style matches one of the padding patterns
PaddingMatches(style) == Matches(style.padding_left) \/ Len(style.padding) >= 2

\* the style without the properties of lower priority
OnlyPadding(style) == [style EXCEPT !.text_indent = <<>>, !.margin_left = <<>>]
WithoutMargin(style) == [style EXCEPT !.margin_left = <<>>]

\* C24 (as stated): the first property that matches decides the
\* style-derived indentation: when a padding declaration matches, the
\* indentation is the one the style gives without its text-indent and
\* margin-left, whatever value the padding has; when none matches and
\* text-indent matches, the one it gives without its margin-left.
C24_FirstMatchDecides ==
    (ipc = "done" /\ StyleOf(indent_cell).nonempty) =>
        LET style == StyleOf(indent_cell)
        IN  /\ PaddingMatches(style) =>
                   cell_indent_px = IndentPx(OnlyPadding(style))
            /\ (~PaddingMatches(style) /\ Matches(style.text_indent)) =>
                   cell_indent_px = IndentPx(WithoutMargin(style))

\* the indentation comes from the padding shorthand alone
FromShorthand(style) ==
    /\ style.nonempty
    /\ ~Matches(style.padding_left)
    /\ Len(style.padding) \in {2, 4}
    /\ style.text_indent = <<>>
    /\ style.margin_left = <<>>

\* the left padding under the CSS reading of the shorthand
LeftPadding(padding) == padding[Len(padding)]

\* C25 (as stated): when the indentation comes from the padding shorthand,
\* it is the left padding of the shorthand (the 4th of four values, the 2nd
\* of two values) converted to pixels with that value's own unit.
C25_ShorthandLeftPadding ==
    (ipc = "done" /\ FromShorthand(StyleOf(indent_cell))) =>
        LET left == LeftPadding(StyleOf(indent_cell).padding)
        IN  cell_indent_px = ToPx(left.v, left.unit)

\* the number of whitespace characters the text starts with
RECURSIVE LeadingWhitespace(_)
LeadingWhitespace(text) ==
    IF text # <<>> /\ IsSpace(Head(text))
    THEN 1 + LeadingWhitespace(Tail(text))
    ELSE 0

\* the number of non-breaking spaces of the text, in any of their three forms
NonBreakingSpaces(text) ==
    Cardinality({i \in 1..Len(text) : text[i] \in {NBSP, NbspEntity, NumEntity}})

IsGreatest(n, counts) == n \in counts /\ \A m \in counts : m <= n

\* the text of the cell without the whitespace around it
Trimmed(text) == rstrip(SubSeq(text, LeadingWhitespace(text) + 1, Len(text)))

\* C26: the text of a resolved cell is its trimmed text, prefixed when the
\* cell is the first of its row by as many indent markers as the greatest of
\* the leading-whitespace count, the style-derived pixel indent divided by 8
\* rounded down, and the number of non-breaking spaces of the text; a cell
\* that is not the first of its row carries no marker; a positive padding
\* in em or rem counts 16 pixels per unit.
C26_EffectiveIndentIsMax ==
    ipc = "done" =>
        LET counts == {LeadingWhitespace(indent_cell.text),
                       cell_indent_px \div 8,
                       NonBreakingSpaces(indent_cell.text)}
            effective_indent == CHOOSE n \in counts : IsGreatest(n, counts)
            style == StyleOf(indent_cell)
        IN  /\ indent_text =
                   IF indent_idx = 0
                   THEN Repeat(NbspEntity, effective_indent)
                            \o Trimmed(indent_cell.text)
                   ELSE Trimmed(indent_cell.text)
            /\ (/\ style.nonempty
                /\ Matches(style.padding_left)
                /\ style.padding_left[1].unit \in {"em", "rem"}
                /\ style.padding_left[1].v > 0) =>
                   cell_indent_px = 16 * style.padding_left[1].v

\* the first cell of a row whose style-derived indent is the greatest of the
\* three counts, all three being positive
C26_Witness ==
    /\ ipc = "done"
    /\ indent_idx = 0
    /\ LeadingWhitespace(indent_cell.text) > 0
    /\ NonBreakingSpaces(indent_cell.text) > 0
    /\ cell_indent_px \div 8 > LeadingWhitespace(indent_cell.text)
    /\ cell_indent_px \div 8 > NonBreakingSpaces(indent_cell.text)
    /\ Len(indent_text) > cell_indent_px \div 8

(***************************************************************************)
(* Claims about the descriptors of a text (SpecExtract).                   *)
(***************************************************************************)

\* the result of a line has index-aligned titles, values and units
Aligned(result) ==
    /\ Len(result.titles) = Len(result.values)
    /\ Len(result.titles) = Len(result.units)

\* the i-th triple of a result, as the descriptor of its line
Triple(result, i, line) ==
    [title |-> result.titles[i], value |-> result.values[i],
     unit |-> result.units[i], reference |-> line]

TablePositions(elements) ==
    SelectSeq([i \in 1..Len(elements) |-> i], LAMBDA i : elements[i].name = "table")

\* the start of the run of non-empty text elements that ends just before p
RECURSIVE RunStart(_, _)
RunStart(elements, p) ==
    IF p > 1 /\ elements[p - 1].name # "table" /\ strip(elements[p - 1].text) # <<>>
    THEN RunStart(elements, p - 1)
    ELSE p

\* the continuous text immediately preceding the table at position p
PrecedingText(elements, p) ==
    join(<<NL>>, [i \in 1..(p - RunStart(elements, p)) |->
                     strip(elements[RunStart(elements, p) + i - 1].text)])

\* C28 (as stated): extract_table_with_preceding_text returns a list with
\* one entry per table of the document, in document order, each entry giving
\* the rendering of its table and the continuous text immediately preceding
\* that table.
C28_OneEntryPerTable ==
    epc = "done" =>
        /\ chunk_result.type = "list"
        /\ Len(chunk_result.value) = Len(TablePositions(document))
        /\ \A i \in 1..Len(TablePositions(document)) :
               LET p == TablePositions(document)[i]
               IN  /\ chunk_result.value[i].table_only =
                          parse_html_table_to_markdown(document[p].raw)
                   /\ chunk_result.value[i].preceding_text =
                          PrecedingText(document, p)

(***************************************************************************)
(* Claims about the fallback of a Stage-B call (SpecStageB).               *)
(***************************************************************************)

Executing == {i \in Invocations : lpc[i] = "body"}

\* the invocations that hold a slot: in the body, or woken with the slot of
\* the invocation that left
Holding == {i \in Invocations : lpc[i] \in {"body", "woken"}}

\* C30: at most max_concurrent invocations execute the body at the same
\* time; the free slots and the slots held always add up to max_concurrent,
\* so an invocation that has returned or raised holds none; and an
\* invocation that waits for a slot enters the body once one is freed.
C30_AtMostKExecuting ==
    /\ [](Cardinality(Executing) <= max_concurrent)
    /\ [](semaphore_value + Cardinality(Holding) = max_concurrent)
    /\ \A i \in Invocations :
           (max_concurrent > 0 /\ lpc[i] = "waiting") ~> (lpc[i] = "body")

\* one slot: an invocation raised, a later one entered the body in its
\* place and a third one still waits
C30_Witness ==
    /\ max_concurrent = 1
    /\ \E i, j, w \in Invocations :
           /\ lpc[i] = "raised"
           /\ lpc[j] = "body"
           /\ lpc[w] = "waiting"

====
